---- MODULE Spec2Model ----
(***************************************************************************)
(* star-tidy: the batch classification-and-reconciliation pipeline.        *)
(*                                                                         *)
(* The five nodes of create_star_classification_flow (src/flow.py) run in  *)
(* sequence over a shared context; the repository host and the inference   *)
(* gateway are external and answer each call with a success or a failure.  *)
(* Python dicts are modelled with their insertion order: a dict is a       *)
(* sequence of entries with distinct keys.  Confidences are in hundredths  *)
(* (0.1 is 10, 0.5 is 50).                                                 *)
(***************************************************************************)
EXTENDS Integers, Sequences, FiniteSets, TLC

\* ------------------------------------------------------------------ bounds
\* Number of repositories the user has starred on the host.
MaxRepos == 2
\* Host calls that may fail (a 404 included) in one behaviour.
MaxHostFailures == 1
\* Longest repository group the description generator is applied to (SpecDesc).
MaxGroup == 4

\* ------------------------------------------------------- program constants
\* _generate_basic_description keeps the first three languages.
TopLanguages == 3
\* The sentinel confidence 0.1 and the default confidence 0.5, in hundredths.
SentinelConfidence == 10
DefaultConfidence == 50

\* --------------------------------------------------------------- universe
RepoNames == <<"a/x", "a/y", "a/z", "a/w">>
RepoLanguages == <<"Python", "Python", "Go", "">>
RepoStars == <<10, 5, 1, 0>>

\* A starred repository as the host returns it.
Repo(i) ==
  [id |-> i, full_name |-> RepoNames[i], language |-> RepoLanguages[i],
   stargazers_count |-> RepoStars[i]]

\* The user's starred repositories, in host order.
HostStarred == [i \in 1..MaxRepos |-> Repo(i)]

\* Category names the inference gateway answers with.
LLMCategories == {"Web", "Tools"}

\* Raw texts the inference gateway answers a summary prompt with, as tokens;
\* " " is whitespace.  call_llm rejects only the empty content.
LLMTexts == {<<"AI text", " ">>, <<" ">>}

\* exclude_repos values drawn for a run.
ExcludeChoices == {{}, {RepoNames[1]}}

\* Remote lists the host may hold before the first run.
HostInits ==
  { <<>>,
    <<[id |-> 1, name |-> "Web", description |-> "old desc", items |-> {}],
      [id |-> 2, name |-> "Tools", description |-> "", items |-> {}]>> }

VARIABLES
  config,                  \* the loaded configuration (shared["config"])
  hostLists,               \* the host's named lists, in creation order
  pc,                      \* the node the flow is at, or "done" / "failed"
  step,                    \* position inside the node
  sharedKeys,              \* keys written to the shared context
  starred_repos,           \* shared["starred_repos"]
  mode,                    \* shared["mode"]
  existing_categories,     \* shared["existing_categories"]
  filtered_repos,          \* AnalyzeRepositoriesNode.prep result
  exec_res_list,           \* results of AnalyzeRepositoriesNode.exec so far
  classification_results,  \* shared["classification_results"]
  list_cache,              \* StarListManager._list_cache of the Reconcile manager
  existing_lists,          \* the lists ManageStarListsNode.exec fetched
  organized_repos,         \* category -> repositories
  enhanced_summaries,      \* category -> decided description
  results,                 \* category -> operation result
  operation_results,       \* shared["operation_results"]
  idx,                     \* loop position inside ManageStarListsNode.exec
  hostCalls,               \* host calls issued in this run, in order
  llmCalls,                \* inference calls issued in this run, in order
  stages,                  \* nodes started in this run, in order
  hostFailures,            \* failed host calls so far
  hostAtStart,             \* the host's lists when this run began
  runNo,                   \* number of the current run
  prevRun,                 \* what the previous run left (SpecRerun)
  desc,                    \* a group and the description generated for it (SpecDesc)
  parsed,                  \* a gateway answer and what _parse_ai_response made of it (SpecParse)
  paging                   \* the page loop of get_starred_repos (SpecPages)

vars ==
  <<config, hostLists, pc, step, sharedKeys, starred_repos, mode,
    existing_categories, filtered_repos, exec_res_list, classification_results,
    list_cache, existing_lists, organized_repos, enhanced_summaries, results,
    operation_results, idx, hostCalls, llmCalls, stages, hostFailures,
    hostAtStart, runNo, prevRun, desc,
                 parsed, paging>>

\* ---------------------------------------------------------------- helpers
Max(S) == CHOOSE m \in S : \A x \in S : x <= m
Min2(a, b) == IF a <= b THEN a ELSE b

\* A dict as a sequence of [key, value] entries with distinct keys.
EmptyDict == <<>>
DictKeys(d) == {d[i].key : i \in DOMAIN d}
DictHas(d, k) == \E i \in DOMAIN d : d[i].key = k
DictGet(d, k) == d[CHOOSE i \in DOMAIN d : d[i].key = k].value
\* d[k] = v: an existing key keeps its position, a new key goes last.
DictSet(d, k, v) ==
  IF DictHas(d, k)
  THEN [i \in DOMAIN d |-> IF d[i].key = k THEN [key |-> k, value |-> v] ELSE d[i]]
  ELSE Append(d, [key |-> k, value |-> v])

RECURSIVE DictFromPairs(_)
\* {k: v for k, v in pairs}
DictFromPairs(pairs) ==
  IF pairs = <<>> THEN EmptyDict
  ELSE LET n == Len(pairs)
       IN  DictSet(DictFromPairs(SubSeq(pairs, 1, n - 1)), pairs[n].key, pairs[n].value)

\* ------------------------------------------------- repository_analyzer.py
\* What call_llm_with_config gives for a classification prompt: an error
\* ("error"), or a text whose payload yaml.safe_load turns into something that
\* is not a mapping ("not_dict"), into a mapping without category
\* ("no_category") or into a mapping with category, reason and confidence
\* ("dict").  These are the answers drawn in a run of the pipeline; the
\* confidence a mapping carries is whatever number the gateway wrote: 0.9 in
\* its answers for one category and, outside the range the prompt asks for,
\* 1.5 in its answers for the other.
LLMConfidence(category) == IF category = "Web" THEN 90 ELSE 150

ClassifyResponses ==
  { [kind |-> "error"], [kind |-> "not_dict"] }
  \cup { [kind |-> "dict", category |-> c, reason |-> "fits",
          confidence |-> LLMConfidence(c)] : c \in LLMCategories }

\* Mutant: a failed inference call is tried a second time.
ClassifyAttempts_Retry(full_name, response) ==
  IF response.kind = "error"
  THEN << [purpose |-> "classify", subject |-> full_name, response |-> response],
          [purpose |-> "classify", subject |-> full_name, response |-> response] >>
  ELSE << [purpose |-> "classify", subject |-> full_name, response |-> response] >>

\* The inference calls analyze_repository makes for a repository: the single
\* call_llm_with_config of its try block, answered by response.
ClassifyAttempts(full_name, response) ==
  << [purpose |-> "classify", subject |-> full_name, response |-> response] >>

\* The sentinel of analyze_repository and _parse_ai_response.
Sentinel(reason) ==
  [category |-> "Uncategorized", reason |-> reason, confidence |-> SentinelConfidence]

\* RepositoryAnalyzer._parse_ai_response on the text of a response.
ParseAiResponse(response) ==
  IF response.kind = "not_dict"
  THEN Sentinel("Failed to parse AI response: Response is not a valid dictionary")
  ELSE IF response.kind = "no_category"
  THEN Sentinel("Failed to parse AI response: Missing 'category' field")
  ELSE [category |-> response.category, reason |-> response.reason,
        confidence |-> response.confidence]

\* Mutant: a failed call is reported with the default confidence.
AnalyzeRepository_DefaultConfidence(response) ==
  IF response.kind = "error"
  THEN [category |-> "Uncategorized", reason |-> "Analysis failed: LLM API call failed",
        confidence |-> DefaultConfidence]
  ELSE ParseAiResponse(response)

\* RepositoryAnalyzer.analyze_repository: one inference call, then the parse;
\* a failed call gives the sentinel.
AnalyzeRepository(response) ==
  IF response.kind = "error"
  THEN Sentinel("Analysis failed: LLM API call failed")
  ELSE ParseAiResponse(response)

\* ------------------------------------------------- star_list_manager.py
RECURSIVE OrganizeFrom_Prepend(_, _, _)
\* Mutant: a repository is put at the front of its group.
OrganizeFrom_Prepend(classification, repo_map, i) ==
  IF i = 0 THEN EmptyDict
  ELSE LET organized == OrganizeFrom_Prepend(classification, repo_map, i - 1)
           entry == classification[i]
           category == entry.value.category
       IN  IF DictHas(repo_map, entry.key)
           THEN LET repo == DictGet(repo_map, entry.key)
                IN  IF DictHas(organized, category)
                    THEN DictSet(organized, category,
                                 <<repo>> \o DictGet(organized, category))
                    ELSE DictSet(organized, category, <<repo>>)
           ELSE organized

RECURSIVE OrganizeFrom(_, _, _)
\* The loop of organize_repos_by_category after the first i classification
\* entries.
OrganizeFrom(classification, repo_map, i) ==
  IF i = 0 THEN EmptyDict
  ELSE LET organized == OrganizeFrom(classification, repo_map, i - 1)
           entry == classification[i]
           category == entry.value.category
       IN  IF DictHas(repo_map, entry.key)
           THEN LET repo == DictGet(repo_map, entry.key)
                IN  IF DictHas(organized, category)
                    THEN DictSet(organized, category,
                                 Append(DictGet(organized, category), repo))
                    ELSE DictSet(organized, category, <<repo>>)
           ELSE organized

\* Mutant: the repositories of the sentinel category are left out.
OrganizeReposByCategory_NoSentinel(classification, starred) ==
  LET repo_map ==
        DictFromPairs([i \in DOMAIN starred |->
                         [key |-> starred[i].full_name, value |-> starred[i]]])
      kept == SelectSeq(classification,
                        LAMBDA e : e.value.category # "Uncategorized")
  IN  OrganizeFrom(kept, repo_map, Len(kept))

\* StarListManager.organize_repos_by_category.
OrganizeReposByCategory(classification, starred) ==
  LET repo_map ==
        DictFromPairs([i \in DOMAIN starred |->
                         [key |-> starred[i].full_name, value |-> starred[i]]])
  IN  OrganizeFrom(classification, repo_map, Len(classification))

RECURSIVE LanguageCounts(_)
\* The languages dict of _generate_basic_description: language -> count, in
\* first-encountered order; a repository without language is skipped.
LanguageCounts(repos) ==
  IF repos = <<>> THEN EmptyDict
  ELSE LET n == Len(repos)
           languages == LanguageCounts(SubSeq(repos, 1, n - 1))
           lang == repos[n].language
       IN  IF lang = "" THEN languages
           ELSE IF DictHas(languages, lang)
           THEN DictSet(languages, lang, DictGet(languages, lang) + 1)
           ELSE DictSet(languages, lang, 1)

RECURSIVE SortedByCountDesc_TiesReversed(_)
\* Mutant: an entry goes before the entries with an equal count.
SortedByCountDesc_TiesReversed(items) ==
  IF items = <<>> THEN <<>>
  ELSE LET n == Len(items)
           front == SortedByCountDesc_TiesReversed(SubSeq(items, 1, n - 1))
           x == items[n]
           k == Cardinality({j \in DOMAIN front : front[j].value > x.value})
       IN  SubSeq(front, 1, k) \o <<x>> \o SubSeq(front, k + 1, Len(front))

RECURSIVE SortedByCountDesc(_)
\* sorted(items, key=count, reverse=True): stable, so that entries with equal
\* counts keep their order.
SortedByCountDesc(items) ==
  IF items = <<>> THEN <<>>
  ELSE LET n == Len(items)
           front == SortedByCountDesc(SubSeq(items, 1, n - 1))
           x == items[n]
           \* x goes after every entry whose count is at least its own
           k == Cardinality({j \in DOMAIN front : front[j].value >= x.value})
       IN  SubSeq(front, 1, k) \o <<x>> \o SubSeq(front, k + 1, Len(front))

RECURSIVE Join(_, _)
\* sep.join(parts)
Join(sep, parts) ==
  IF parts = <<>> THEN ""
  ELSE IF Len(parts) = 1 THEN parts[1]
  ELSE parts[1] \o sep \o Join(sep, Tail(parts))

\* Three digits, zero padded.
Pad3(n) ==
  IF n < 10 THEN "00" \o ToString(n)
  ELSE IF n < 100 THEN "0" \o ToString(n)
  ELSE ToString(n)

RECURSIVE FormatThousands(_)
\* f"{n:,}"
FormatThousands(n) ==
  IF n < 1000 THEN ToString(n)
  ELSE FormatThousands(n \div 1000) \o "," \o Pad3(n % 1000)

RECURSIVE SumStars(_)
\* sum(repo.get("stargazers_count", 0) for repo in repos)
SumStars(repos) ==
  IF repos = <<>> THEN 0
  ELSE repos[1].stargazers_count + SumStars(Tail(repos))

\* The language part of _generate_basic_description.
TopLanguageNames(repos) ==
  LET sorted == SortedByCountDesc(LanguageCounts(repos))
      top_languages == SubSeq(sorted, 1, Min2(TopLanguages, Len(sorted)))
  IN  [i \in DOMAIN top_languages |-> top_languages[i].key]

\* The statistics part of _generate_basic_description.
StatsText(repos, include_stats) ==
  IF include_stats /\ SumStars(repos) > 0
  THEN " - Total stars: " \o FormatThousands(SumStars(repos))
  ELSE ""

\* StarListManager._generate_basic_description.
GenerateBasicDescription(category, repos, include_stats) ==
  LET lang_text == Join(", ", TopLanguageNames(repos))
      head == "Auto-categorized " \o category \o " repositories ("
              \o ToString(Len(repos)) \o " repos)"
      with_lang == IF lang_text # "" THEN head \o " - Main languages: " \o lang_text
                   ELSE head
  IN  with_lang \o StatsText(repos, include_stats)

RECURSIVE LStrip(_)
\* Leading whitespace tokens removed.
LStrip(tokens) ==
  IF tokens # <<>> /\ tokens[1] = " " THEN LStrip(Tail(tokens)) ELSE tokens

RECURSIVE RStrip(_)
\* Trailing whitespace tokens removed.
RStrip(tokens) ==
  IF tokens # <<>> /\ tokens[Len(tokens)] = " "
  THEN RStrip(SubSeq(tokens, 1, Len(tokens) - 1)) ELSE tokens

\* str.strip() of a text given as tokens.
Strip(tokens) == Join("", RStrip(LStrip(tokens)))

\* What call_llm_with_config gives for an enhancement prompt.
SummaryResponses == {[kind |-> "error"]} \cup {[kind |-> "text", text |-> t] : t \in LLMTexts}
\* What it gives for the summary prompt of generate_ai_summary: an error or a
\* text with something in it.
FreshResponses == {r \in SummaryResponses : r.kind = "text" => Strip(r.text) # ""}
\* The value standing for "no inference call was made".
NoCall == [kind |-> "none"]

\* Whether generate_ai_summary calls the inference gateway.
SummaryCallsLLM(options) == options.use_ai_summary

\* Mutant: a failed inference call gives the empty description.
GenerateAiSummary_NoFallback(category, repos, options, response) ==
  IF ~options.use_ai_summary
  THEN GenerateBasicDescription(category, repos, options.include_stats)
  ELSE IF response.kind = "text" THEN Strip(response.text)
  ELSE ""

\* StarListManager.generate_ai_summary, response being the gateway's answer
\* when a call is made.
GenerateAiSummary(category, repos, options, response) ==
  IF ~options.use_ai_summary
  THEN GenerateBasicDescription(category, repos, options.include_stats)
  ELSE IF response.kind = "text" THEN Strip(response.text)
  ELSE GenerateBasicDescription(category, repos, options.include_stats)

\* Mutant: a failed enhancement gives the empty description.
EnhanceExistingDescription_Empty(existing_desc, options, response) ==
  IF ~options.use_ai_summary THEN existing_desc
  ELSE IF response.kind = "text" THEN Strip(response.text)
  ELSE ""

\* StarListManager._enhance_existing_description.
EnhanceExistingDescription(existing_desc, options, response) ==
  IF ~options.use_ai_summary THEN existing_desc
  ELSE IF response.kind = "text" THEN Strip(response.text)
  ELSE existing_desc

\* next((lst for lst in existing_lists if lst["name"] == category), None):
\* the position of the first list of that name, 0 for None.
FirstNamed(lists, category) ==
  IF \E i \in DOMAIN lists : lists[i].name = category
  THEN CHOOSE i \in DOMAIN lists :
         /\ lists[i].name = category
         /\ \A j \in DOMAIN lists : lists[j].name = category => i <= j
  ELSE 0

\* The branch one iteration of complete_list_summaries takes for a category:
\* "auto_complete", "enhance", "keep" or "new".
SummaryBranch(lists, category, options) ==
  LET i == FirstNamed(lists, category)
  IN  IF i = 0 THEN "new"
      ELSE IF lists[i].description = "" /\ options.auto_complete THEN "auto_complete"
      ELSE IF lists[i].description # "" /\ options.enhance_existing THEN "enhance"
      ELSE "keep"

\* Mutant: the inference gateway is called whatever use_ai_summary says.
BranchCallsLLM_IgnoresOption(lists, category, options) ==
  SummaryBranch(lists, category, options) # "keep"

\* Whether that iteration calls the inference gateway.
BranchCallsLLM(lists, category, options) ==
  /\ SummaryBranch(lists, category, options) # "keep"
  /\ options.use_ai_summary

\* The description one iteration of complete_list_summaries decides.
DecideSummary(lists, category, repos, options, response) ==
  LET branch == SummaryBranch(lists, category, options)
      i == FirstNamed(lists, category)
  IN  IF branch \in {"new", "auto_complete"}
      THEN GenerateAiSummary(category, repos, options, response)
      ELSE IF branch = "enhance"
      THEN EnhanceExistingDescription(lists[i].description, options, response)
      ELSE lists[i].description

\* ------------------------------------------------------- github_client.py
\* A list as the host's API returns it.
ListView(l) == [id |-> l.id, name |-> l.name, description |-> l.description]

\* GET user/starred/lists answered normally.
HostListsView(host) == [i \in DOMAIN host |-> ListView(host[i])]

\* POST user/starred/lists: the host adds a list under a fresh id.
HostCreate(host, name, description) ==
  Append(host, [id |-> Len(host) + 1, name |-> name, description |-> description,
                items |-> {}])

\* PATCH user/starred/lists/{id}; update_star_list sends the description only
\* when it is not empty.
HostUpdate(host, list_id, description) ==
  [i \in DOMAIN host |->
     IF host[i].id = list_id /\ description # ""
     THEN [host[i] EXCEPT !.description = description] ELSE host[i]]

\* Mutant: the sent ids replace the members of the list.
HostAdd_Replace(host, list_id, repo_ids) ==
  [i \in DOMAIN host |->
     IF host[i].id = list_id
     THEN [host[i] EXCEPT !.items = repo_ids] ELSE host[i]]

\* PUT user/starred/lists/{id}/items: the repositories are added to the list.
HostAdd(host, list_id, repo_ids) ==
  [i \in DOMAIN host |->
     IF host[i].id = list_id
     THEN [host[i] EXCEPT !.items = @ \cup repo_ids] ELSE host[i]]

\* One host call as logged.
HostCall(op, list_id, name, description, repo_ids, ok) ==
  [op |-> op, list_id |-> list_id, name |-> name, description |-> description,
   repo_ids |-> repo_ids, ok |-> ok]

\* A get_user_lists call as logged: the node that issued it and how the host
\* answered.
FetchCall(node, outcome) ==
  [op |-> "get_user_lists", list_id |-> 0, name |-> "", description |-> "",
   repo_ids |-> {}, ok |-> (outcome = "ok"), outcome |-> outcome, by |-> node]

\* The host calls that change the host.
MutatingOps == {"create_star_list", "update_star_list", "add_repos_to_list"}

\* Outcomes of GitHubClient.get_user_lists: the lists, a 404, another error.
FetchOutcomes == {"ok", "not_found", "error"}

\* Mutant: the lists are returned whatever the host's status.
GetUserLists_Ignore404(host, outcome) == HostListsView(host)

\* What GitHubClient.get_user_lists returns (an "error" raises instead).
GetUserLists(host, outcome) == IF outcome = "ok" THEN HostListsView(host) ELSE <<>>

\* Mutant: the fetched lists are returned but the cache is not filled.
GetExistingLists_NoCache(host, cache, outcome) ==
  IF outcome = "error"
  THEN [lists |-> <<>>, cache |-> cache]
  ELSE [lists |-> GetUserLists(host, outcome), cache |-> cache]

\* StarListManager.get_existing_lists on a manager whose cache is cache:
\* the lists returned and the cache afterwards.
GetExistingLists(host, cache, outcome) ==
  IF outcome = "error"
  THEN [lists |-> <<>>, cache |-> cache]
  ELSE LET lists == GetUserLists(host, outcome)
       IN  [lists |-> lists,
            cache |-> DictFromPairs([i \in DOMAIN lists |->
                                       [key |-> lists[i].name, value |-> lists[i]]])]

\* [repo["id"] for repo in repos]
RepoIds(repos) == {repos[i].id : i \in DOMAIN repos}
\* [repo["full_name"] for repo in repos]
FullNames(repos) == [i \in DOMAIN repos |-> repos[i].full_name]

\* Mutant: the number of repositories added is not reported.
CreatedResult_NoCount(list_id, repos) ==
  [success |-> TRUE, action |-> "created", list_id |-> list_id, repos_added |-> 0]

\* The result _create_new_list returns.
CreatedResult(list_id, repos) ==
  [success |-> TRUE, action |-> "created", list_id |-> list_id,
   repos_added |-> Len(repos)]

\* Mutant: the list created is removed again when adding to it fails.
CreateNewList_Rollback(host, cache, list_name, description, repos, firstOk, addOk) ==
  LET created == HostCreate(host, list_name, description)
      list_id == Len(host) + 1
      new_list == ListView(created[Len(created)])
      createCall(ok) == HostCall("create_star_list", 0, list_name, description, {}, ok)
      addCall(ok) == HostCall("add_repos_to_list", list_id, "", "", RepoIds(repos), ok)
  IN  IF ~firstOk
      THEN [raised |-> TRUE, error |-> "create_star_list failed", host |-> host,
            cache |-> cache, calls |-> <<createCall(FALSE)>>]
      ELSE IF repos # <<>> /\ ~addOk
      THEN [raised |-> TRUE, error |-> "add_repos_to_list failed", host |-> host,
            cache |-> cache, calls |-> <<createCall(TRUE), addCall(FALSE)>>]
      ELSE [raised |-> FALSE,
            result |-> CreatedResult(list_id, repos),
            host |-> IF repos # <<>> THEN HostAdd(created, list_id, RepoIds(repos))
                     ELSE created,
            cache |-> DictSet(cache, list_name, new_list),
            calls |-> <<createCall(TRUE)>>
                      \o (IF repos # <<>> THEN <<addCall(TRUE)>> ELSE <<>>)]

\* StarListManager._create_new_list; firstOk and addOk are the outcomes of
\* create_star_list and add_repos_to_list.  raised: an exception leaves it.
CreateNewList(host, cache, list_name, description, repos, firstOk, addOk) ==
  LET created == HostCreate(host, list_name, description)
      list_id == Len(host) + 1
      new_list == ListView(created[Len(created)])
      createCall(ok) == HostCall("create_star_list", 0, list_name, description, {}, ok)
      addCall(ok) == HostCall("add_repos_to_list", list_id, "", "", RepoIds(repos), ok)
  IN  IF ~firstOk
      THEN [raised |-> TRUE, error |-> "create_star_list failed", host |-> host,
            cache |-> cache, calls |-> <<createCall(FALSE)>>]
      ELSE IF repos # <<>> /\ ~addOk
      THEN [raised |-> TRUE, error |-> "add_repos_to_list failed", host |-> created,
            cache |-> cache, calls |-> <<createCall(TRUE), addCall(FALSE)>>]
      ELSE [raised |-> FALSE,
            result |-> CreatedResult(list_id, repos),
            host |-> IF repos # <<>> THEN HostAdd(created, list_id, RepoIds(repos))
                     ELSE created,
            cache |-> DictSet(cache, list_name, new_list),
            calls |-> <<createCall(TRUE)>>
                      \o (IF repos # <<>> THEN <<addCall(TRUE)>> ELSE <<>>)]

\* Mutant: the description is never pushed.
DescriptionChanged_Never(existing_list, description) == FALSE

\* Mutant: the description is pushed whenever there is one.
DescriptionChanged_Always(existing_list, description) == description # ""

\* The condition under which _update_existing_list calls update_star_list.
DescriptionChanged(existing_list, description) ==
  description # "" /\ description # existing_list.description

\* Mutant: the repositories are added although update_star_list failed.
UpdateExistingList_AddAnyway(host, cache, existing_list, description, repos, firstOk, addOk) ==
  LET list_id == existing_list.id
      changed == DescriptionChanged(existing_list, description)
      updateCall(ok) == HostCall("update_star_list", list_id, "", description, {}, ok)
      addCall(ok) == HostCall("add_repos_to_list", list_id, "", "", RepoIds(repos), ok)
      updated == IF changed THEN HostUpdate(host, list_id, description) ELSE host
      before == IF changed THEN <<updateCall(TRUE)>> ELSE <<>>
  IN  IF changed /\ ~firstOk
      THEN [raised |-> TRUE, error |-> "update_star_list failed",
            host |-> HostAdd(host, list_id, RepoIds(repos)),
            cache |-> cache, calls |-> <<updateCall(FALSE), addCall(TRUE)>>]
      ELSE IF repos # <<>> /\ ~addOk
      THEN [raised |-> TRUE, error |-> "add_repos_to_list failed", host |-> updated,
            cache |-> cache, calls |-> before \o <<addCall(FALSE)>>]
      ELSE [raised |-> FALSE,
            result |-> [success |-> TRUE, action |-> "updated", list_id |-> list_id,
                        repos_added |-> Len(repos)],
            host |-> IF repos # <<>> THEN HostAdd(updated, list_id, RepoIds(repos))
                     ELSE updated,
            cache |-> cache,
            calls |-> before \o (IF repos # <<>> THEN <<addCall(TRUE)>> ELSE <<>>)]

\* StarListManager._update_existing_list; firstOk and addOk are the outcomes
\* of update_star_list and add_repos_to_list.
UpdateExistingList(host, cache, existing_list, description, repos, firstOk, addOk) ==
  LET list_id == existing_list.id
      changed == DescriptionChanged(existing_list, description)
      updateCall(ok) == HostCall("update_star_list", list_id, "", description, {}, ok)
      addCall(ok) == HostCall("add_repos_to_list", list_id, "", "", RepoIds(repos), ok)
      updated == IF changed THEN HostUpdate(host, list_id, description) ELSE host
      before == IF changed THEN <<updateCall(TRUE)>> ELSE <<>>
  IN  IF changed /\ ~firstOk
      THEN [raised |-> TRUE, error |-> "update_star_list failed", host |-> host,
            cache |-> cache, calls |-> <<updateCall(FALSE)>>]
      ELSE IF repos # <<>> /\ ~addOk
      THEN [raised |-> TRUE, error |-> "add_repos_to_list failed", host |-> updated,
            cache |-> cache, calls |-> before \o <<addCall(FALSE)>>]
      ELSE [raised |-> FALSE,
            result |-> [success |-> TRUE, action |-> "updated", list_id |-> list_id,
                        repos_added |-> Len(repos)],
            host |-> IF repos # <<>> THEN HostAdd(updated, list_id, RepoIds(repos))
                     ELSE updated,
            cache |-> cache,
            calls |-> before \o (IF repos # <<>> THEN <<addCall(TRUE)>> ELSE <<>>)]

\* The branch of create_or_update_list: the cached list, when there is one,
\* is updated, otherwise a list is created.
CreateOrUpdateBranch(host, cache, list_name, description, repos, firstOk, addOk) ==
  IF DictHas(cache, list_name)
  THEN UpdateExistingList(host, cache, DictGet(cache, list_name), description,
                          repos, firstOk, addOk)
  ELSE CreateNewList(host, cache, list_name, description, repos, firstOk, addOk)

\* Mutant: an exception of either branch is swallowed and reported as success.
CreateOrUpdateList_Swallow(host, cache, list_name, description, repos, firstOk, addOk) ==
  LET r == CreateOrUpdateBranch(host, cache, list_name, description, repos,
                                firstOk, addOk)
  IN  [result |-> IF r.raised
                  THEN [success |-> TRUE, action |-> "updated", list_id |-> 0,
                        repos_added |-> 0]
                  ELSE r.result,
       host |-> r.host, cache |-> r.cache, calls |-> r.calls]

\* StarListManager.create_or_update_list: an exception of either branch
\* becomes a failure result.
CreateOrUpdateList(host, cache, list_name, description, repos, firstOk, addOk) ==
  LET r == CreateOrUpdateBranch(host, cache, list_name, description, repos,
                                firstOk, addOk)
  IN  [result |-> IF r.raised THEN [success |-> FALSE, error |-> r.error]
                  ELSE r.result,
       host |-> r.host, cache |-> r.cache, calls |-> r.calls]

\* The result ManageStarListsNode.exec records for a category in a dry run.
DryRunResult(repos, enhanced_description) ==
  [success |-> TRUE, action |-> "dry_run", repos_count |-> Len(repos),
   repos |-> FullNames(repos), enhanced_description |-> enhanced_description]

\* result["enhanced_description"] = enhanced_description
WithDescription(result, enhanced_description) ==
  IF result.success
  THEN [success |-> TRUE, action |-> result.action, list_id |-> result.list_id,
        repos_added |-> result.repos_added,
        enhanced_description |-> enhanced_description]
  ELSE [success |-> FALSE, error |-> result.error,
        enhanced_description |-> enhanced_description]

\* Number of failed calls among calls.
Failed(calls) == Cardinality({i \in DOMAIN calls : ~calls[i].ok})

\* ----------------------------------------------------------------- flow.py
\* Mutant: mode_decision_node is wired to manage_lists_node.
Successor_SkipAnalyze(node) ==
  CASE node = "InitializeNode" -> "FetchStarredReposNode"
    [] node = "FetchStarredReposNode" -> "ModeDecisionNode"
    [] node = "ModeDecisionNode" -> "ManageStarListsNode"
    [] node = "AnalyzeRepositoriesNode" -> "ManageStarListsNode"
    [] node = "ManageStarListsNode" -> "done"

\* The successor create_star_classification_flow wires to each node; the
\* last node has none and the flow ends.
Successor(node) ==
  CASE node = "InitializeNode" -> "FetchStarredReposNode"
    [] node = "FetchStarredReposNode" -> "ModeDecisionNode"
    [] node = "ModeDecisionNode" -> "AnalyzeRepositoriesNode"
    [] node = "AnalyzeRepositoriesNode" -> "ManageStarListsNode"
    [] node = "ManageStarListsNode" -> "done"

\* The flow's nodes in the order of the wiring.
StageOrder ==
  <<"InitializeNode", "FetchStarredReposNode", "ModeDecisionNode",
    "AnalyzeRepositoriesNode", "ManageStarListsNode">>

\* ---------------------------------------------------------------- config
\* Configurations a run is started with; github_token and openai_api_key say
\* whether the credential is set (include_stats at its default, SpecDesc draws
\* both values).
Configs ==
  [github_token : BOOLEAN, openai_api_key : BOOLEAN,
   dry_run : BOOLEAN, mode : {"auto", "existing_lists"},
   exclude_repos : ExcludeChoices,
   summary_options : [auto_complete : BOOLEAN, enhance_existing : BOOLEAN,
                      use_ai_summary : BOOLEAN, include_stats : {TRUE}]]

\* Mutant: only the host credential is required.
ConfigValid_TokenOnly(cfg) == cfg.github_token

\* Config.validate: both credentials are required.
ConfigValid(cfg) == cfg.github_token /\ cfg.openai_api_key

\* Mutant: the exception of a node is swallowed and the flow goes on.
AfterNode_Continue(node, ok) == Successor(node)

\* Where the run is after a node: at the node's successor, or at its end with
\* the failure flag when the node raised (main_star_classification returns
\* False).
AfterNode(node, ok) == IF ok THEN Successor(node) ELSE "failed"

\* What a previous run left, before the first run.
NoPrevRun ==
  [outcome |-> "none", classification_results |-> EmptyDict,
   operation_results |-> EmptyDict, hostCalls |-> <<>>, hostAtStart |-> <<>>,
   replay |-> FALSE]

\* The state of main_star_classification's run before the flow starts.
FreshRun ==
  /\ pc = "InitializeNode"
  /\ step = "exec"
  /\ sharedKeys = {}
  /\ starred_repos = <<>>
  /\ mode = "unset"
  /\ existing_categories = <<>>
  /\ filtered_repos = <<>>
  /\ exec_res_list = <<>>
  /\ classification_results = EmptyDict
  /\ list_cache = EmptyDict
  /\ existing_lists = <<>>
  /\ organized_repos = EmptyDict
  /\ enhanced_summaries = EmptyDict
  /\ results = EmptyDict
  /\ operation_results = EmptyDict
  /\ idx = 0
  /\ hostCalls = <<>>
  /\ llmCalls = <<>>
  /\ stages = <<>>

\* The description variable of a behaviour that generates none.
NoDesc ==
  [category |-> "", repos |-> <<>>, include_stats |-> TRUE, description |-> "",
   generated |-> FALSE]

\* The parse variable of a behaviour that parses no answer on its own.
NoParse == [response |-> <<>>, result |-> [kind |-> "none"], parsed |-> FALSE]

\* The paging variable of a behaviour that does not follow the page loop.
NoPaging ==
  [page |-> 0, repos |-> 0, requests |-> <<>>, lengths |-> <<>>,
   returned |-> FALSE, raised |-> FALSE]

Init ==
  /\ config \in Configs
  /\ hostLists \in HostInits
  /\ hostAtStart = hostLists
  /\ hostFailures = 0
  /\ runNo = 1
  /\ prevRun = NoPrevRun
  /\ desc = NoDesc
  /\ parsed = NoParse
  /\ paging = NoPaging
  /\ FreshRun

\* Whether a host call may still fail in this run.
MayFail == hostFailures < MaxHostFailures

\* ----------------------------------------------------------------- nodes
\* InitializeNode: config.validate() raises when a credential is missing;
\* otherwise get_user_info succeeds and the node writes its outputs, or fails
\* and the run ends.
Initialize ==
  /\ pc = "InitializeNode"
  /\ stages' = Append(stages, "InitializeNode")
  /\ IF ~ConfigValid(config)
     THEN /\ pc' = AfterNode("InitializeNode", FALSE)
          /\ UNCHANGED <<hostCalls, hostFailures, sharedKeys>>
     ELSE \E ok \in BOOLEAN :
            /\ ok \/ MayFail
            /\ hostCalls' = Append(hostCalls, HostCall("get_user_info", 0, "", "", {}, ok))
            /\ hostFailures' = IF ok THEN hostFailures ELSE hostFailures + 1
            /\ sharedKeys' = IF ok
                             THEN sharedKeys \cup {"config", "github_client", "user_info"}
                             ELSE sharedKeys
            /\ pc' = AfterNode("InitializeNode", ok)
  /\ UNCHANGED <<config, hostLists, step, starred_repos, mode, existing_categories,
                 filtered_repos, exec_res_list, classification_results, list_cache,
                 existing_lists, organized_repos, enhanced_summaries, results,
                 operation_results, idx, llmCalls, hostAtStart, runNo, prevRun, desc,
                 parsed, paging>>

\* FetchStarredReposNode.
FetchStarredRepos ==
  /\ pc = "FetchStarredReposNode"
  /\ stages' = Append(stages, "FetchStarredReposNode")
  /\ \E ok \in BOOLEAN :
       /\ ok \/ MayFail
       /\ hostCalls' = Append(hostCalls, HostCall("get_starred_repos", 0, "", "", {}, ok))
       /\ hostFailures' = IF ok THEN hostFailures ELSE hostFailures + 1
       /\ starred_repos' = IF ok THEN HostStarred ELSE starred_repos
       /\ sharedKeys' = IF ok THEN sharedKeys \cup {"starred_repos"} ELSE sharedKeys
       /\ pc' = AfterNode("FetchStarredReposNode", ok)
  /\ UNCHANGED <<config, hostLists, step, mode, existing_categories,
                 filtered_repos, exec_res_list, classification_results, list_cache,
                 existing_lists, organized_repos, enhanced_summaries, results,
                 operation_results, idx, llmCalls, hostAtStart, runNo, prevRun, desc,
                 parsed, paging>>

\* Mutant: the lists are fetched in every mode.
ModeFetches_Always(m) == TRUE

\* The test of ModeDecisionNode.exec: the lists are fetched in mode
\* existing_lists only.
ModeFetches(m) == m = "existing_lists"

\* ModeDecisionNode: in mode existing_lists a manager of its own fetches the
\* lists and their names become the context.
ModeDecision ==
  /\ pc = "ModeDecisionNode"
  /\ stages' = Append(stages, "ModeDecisionNode")
  /\ IF ModeFetches(config.mode)
     THEN \E outcome \in FetchOutcomes :
            /\ outcome = "ok" \/ MayFail
            /\ LET got == GetExistingLists(hostLists, EmptyDict, outcome)
               IN  /\ existing_categories' =
                        [i \in DOMAIN got.lists |-> got.lists[i].name]
                   /\ mode' = "existing_lists"
            /\ hostCalls' = Append(hostCalls, FetchCall("ModeDecisionNode", outcome))
            /\ hostFailures' = IF outcome = "ok" THEN hostFailures
                               ELSE hostFailures + 1
     ELSE /\ existing_categories' = <<>>
          /\ mode' = "auto"
          /\ UNCHANGED <<hostCalls, hostFailures>>
  /\ sharedKeys' = sharedKeys \cup {"mode", "existing_lists", "existing_categories"}
  /\ pc' = Successor("ModeDecisionNode")
  /\ step' = "prep"
  /\ UNCHANGED <<config, hostLists, starred_repos,
                 filtered_repos, exec_res_list, classification_results, list_cache,
                 existing_lists, organized_repos, enhanced_summaries, results,
                 operation_results, idx, llmCalls, hostAtStart, runNo, prevRun, desc,
                 parsed, paging>>

\* Mutant: nothing is filtered out.
FilterExcluded_None(repos, exclude_repos) == repos

\* Mutant: the test is inverted and only the excluded repositories are kept.
FilterExcluded_Inverted(repos, exclude_repos) ==
  SelectSeq(repos, LAMBDA repo : repo.full_name \in exclude_repos)

\* The filter of AnalyzeRepositoriesNode.prep.
FilterExcluded(repos, exclude_repos) ==
  SelectSeq(repos, LAMBDA repo : repo.full_name \notin exclude_repos)

\* AnalyzeRepositoriesNode.prep.
AnalyzePrep ==
  /\ pc = "AnalyzeRepositoriesNode"
  /\ step = "prep"
  /\ stages' = Append(stages, "AnalyzeRepositoriesNode")
  /\ filtered_repos' = FilterExcluded(starred_repos, config.exclude_repos)
  /\ exec_res_list' = <<>>
  /\ step' = "exec"
  /\ UNCHANGED <<config, hostLists, pc, sharedKeys, starred_repos, mode,
                 existing_categories, classification_results, list_cache,
                 existing_lists, organized_repos, enhanced_summaries, results,
                 operation_results, idx, hostCalls, llmCalls, hostFailures,
                 hostAtStart, runNo, prevRun, desc,
                 parsed, paging>>

\* The answers the inference gateway may give for a repository: any answer
\* in a first run and in a later run that classifies afresh; in a re-run with
\* the same inputs, the answer it gave for that repository before.
ClassifyChoices(full_name) ==
  IF runNo = 1 \/ ~prevRun.replay THEN ClassifyResponses
  ELSE {r \in ClassifyResponses :
          /\ DictHas(prevRun.classification_results, full_name)
          /\ AnalyzeRepository(r) = DictGet(prevRun.classification_results, full_name)}

\* AnalyzeRepositoriesNode.exec on the next item of the batch.
AnalyzeExec ==
  /\ pc = "AnalyzeRepositoriesNode"
  /\ step = "exec"
  /\ Len(exec_res_list) < Len(filtered_repos)
  /\ LET repo == filtered_repos[Len(exec_res_list) + 1]
     IN  \E response \in ClassifyChoices(repo.full_name) :
           /\ exec_res_list' = Append(exec_res_list,
                [key |-> repo.full_name, value |-> AnalyzeRepository(response)])
           /\ llmCalls' = llmCalls \o ClassifyAttempts(repo.full_name, response)
  /\ UNCHANGED <<config, hostLists, pc, step, sharedKeys, starred_repos, mode,
                 existing_categories, filtered_repos, classification_results,
                 list_cache, existing_lists, organized_repos, enhanced_summaries,
                 results, operation_results, idx, hostCalls, stages, hostFailures,
                 hostAtStart, runNo, prevRun, desc,
                 parsed, paging>>

\* AnalyzeRepositoriesNode.post, once every item has its result.
AnalyzePost ==
  /\ pc = "AnalyzeRepositoriesNode"
  /\ step = "exec"
  /\ Len(exec_res_list) = Len(filtered_repos)
  /\ classification_results' = DictFromPairs(exec_res_list)
  /\ sharedKeys' = sharedKeys \cup {"classification_results"}
  /\ pc' = Successor("AnalyzeRepositoriesNode")
  /\ step' = "prep"
  /\ UNCHANGED <<config, hostLists, starred_repos, mode, existing_categories,
                 filtered_repos, exec_res_list, list_cache, existing_lists,
                 organized_repos, enhanced_summaries, results, operation_results,
                 idx, hostCalls, llmCalls, stages, hostFailures, hostAtStart,
                 runNo, prevRun, desc,
                 parsed, paging>>

\* ManageStarListsNode.prep and the head of exec: a new manager fetches the
\* existing lists and the repositories are organized.
ManageStart ==
  /\ pc = "ManageStarListsNode"
  /\ step = "prep"
  /\ stages' = Append(stages, "ManageStarListsNode")
  /\ \E outcome \in FetchOutcomes :
       /\ outcome = "ok" \/ MayFail
       /\ LET got == GetExistingLists(hostLists, EmptyDict, outcome)
          IN  /\ existing_lists' = got.lists
              /\ list_cache' = got.cache
       /\ hostCalls' = Append(hostCalls, FetchCall("ManageStarListsNode", outcome))
       /\ hostFailures' = IF outcome = "ok" THEN hostFailures ELSE hostFailures + 1
  /\ organized_repos' = OrganizeReposByCategory(classification_results, starred_repos)
  /\ enhanced_summaries' = EmptyDict
  /\ results' = EmptyDict
  /\ idx' = 1
  /\ step' = IF organized_repos' = EmptyDict THEN "apply" ELSE "summaries"
  /\ UNCHANGED <<config, hostLists, pc, sharedKeys, starred_repos, mode,
                 existing_categories, filtered_repos, exec_res_list,
                 classification_results, operation_results, llmCalls,
                 hostAtStart, runNo, prevRun, desc,
                 parsed, paging>>

\* One iteration of complete_list_summaries.
ManageSummary ==
  /\ pc = "ManageStarListsNode"
  /\ step = "summaries"
  /\ idx <= Len(organized_repos)
  /\ LET category == organized_repos[idx].key
         repos == organized_repos[idx].value
         options == config.summary_options
         calls == BranchCallsLLM(existing_lists, category, options)
         purpose == IF SummaryBranch(existing_lists, category, options) = "enhance"
                    THEN "enhance" ELSE "summary"
         answers == IF purpose = "enhance" THEN SummaryResponses ELSE FreshResponses
     IN  \E response \in (IF calls THEN answers ELSE {NoCall}) :
           /\ enhanced_summaries' =
                DictSet(enhanced_summaries, category,
                        DecideSummary(existing_lists, category, repos, options, response))
           /\ llmCalls' = IF calls
                          THEN Append(llmCalls, [purpose |-> purpose,
                                 subject |-> category, response |-> response])
                          ELSE llmCalls
  /\ IF idx = Len(organized_repos)
     THEN step' = "apply" /\ idx' = 1
     ELSE step' = step /\ idx' = idx + 1
  /\ UNCHANGED <<config, hostLists, pc, sharedKeys, starred_repos, mode,
                 existing_categories, filtered_repos, exec_res_list,
                 classification_results, list_cache, existing_lists,
                 organized_repos, results, operation_results, hostCalls, stages,
                 hostFailures, hostAtStart, runNo, prevRun, desc,
                 parsed, paging>>

\* Mutant: the dry_run flag is ignored.
IsDryRun_Ignored(cfg) == FALSE

\* config.get("dry_run", False)
IsDryRun(cfg) == cfg.dry_run

\* enhanced_summaries.get(category, "")
SummaryOf(summaries, category) ==
  IF DictHas(summaries, category) THEN DictGet(summaries, category) ELSE ""

\* One iteration of the loop of ManageStarListsNode.exec over the categories.
ManageApply ==
  /\ pc = "ManageStarListsNode"
  /\ step = "apply"
  /\ idx <= Len(organized_repos)
  /\ LET category == organized_repos[idx].key
         repos == organized_repos[idx].value
         enhanced_description == SummaryOf(enhanced_summaries, category)
     IN  IF repos = <<>>
         THEN UNCHANGED <<results, hostLists, list_cache, hostCalls, hostFailures>>
         ELSE IF IsDryRun(config)
         THEN /\ results' = DictSet(results, category,
                                    DryRunResult(repos, enhanced_description))
              /\ UNCHANGED <<hostLists, list_cache, hostCalls, hostFailures>>
         ELSE \E firstOk \in BOOLEAN, addOk \in BOOLEAN :
                LET r == CreateOrUpdateList(hostLists, list_cache, category,
                           enhanced_description, repos, firstOk, addOk)
                IN  /\ hostFailures + Failed(r.calls) <= MaxHostFailures
                    /\ firstOk \/ addOk
                    /\ results' = DictSet(results, category,
                         WithDescription(r.result, enhanced_description))
                    /\ hostLists' = r.host
                    /\ list_cache' = r.cache
                    /\ hostCalls' = hostCalls \o r.calls
                    /\ hostFailures' = hostFailures + Failed(r.calls)
  /\ idx' = idx + 1
  /\ UNCHANGED <<config, pc, step, sharedKeys, starred_repos, mode,
                 existing_categories, filtered_repos, exec_res_list,
                 classification_results, existing_lists, organized_repos,
                 enhanced_summaries, operation_results, llmCalls, stages,
                 hostAtStart, runNo, prevRun, desc,
                 parsed, paging>>

\* The return of ManageStarListsNode.exec and its post; the flow ends.
ManagePost ==
  /\ pc = "ManageStarListsNode"
  /\ step = "apply"
  /\ idx > Len(organized_repos)
  /\ operation_results' = results
  /\ sharedKeys' = sharedKeys \cup {"organized_repos", "operation_results"}
  /\ pc' = Successor("ManageStarListsNode")
  /\ UNCHANGED <<config, hostLists, step, starred_repos, mode,
                 existing_categories, filtered_repos, exec_res_list,
                 classification_results, list_cache, existing_lists,
                 organized_repos, enhanced_summaries, results, idx, hostCalls,
                 llmCalls, stages, hostFailures, hostAtStart, runNo, prevRun, desc,
                 parsed, paging>>

Next ==
  \/ Initialize
  \/ FetchStarredRepos
  \/ ModeDecision
  \/ AnalyzePrep
  \/ AnalyzeExec
  \/ AnalyzePost
  \/ ManageStart
  \/ ManageSummary
  \/ ManageApply
  \/ ManagePost

\* One run of main_star_classification.
Spec == Init /\ [][Next]_vars

\* ----------------------------------------------------- the Reconcile stage
\* Live and dry-run configurations in mode auto, with and without inference
\* for the descriptions.
ReconcileConfigs ==
  {c \in Configs : /\ ConfigValid(c)
                   /\ c.mode = "auto"
                   /\ c.exclude_repos = {}
                   /\ c.summary_options.auto_complete
                   /\ c.summary_options.enhance_existing}

\* The starred repositories of the runs that are followed from the start of
\* the Reconcile stage.
ReconcileStarred == <<Repo(1), Repo(2)>>

RECURSIVE ClassifyCallsOf(_, _)
\* The inference calls of the batch stage for the first n starred
\* repositories, answers[i] being the answer for the i-th.
ClassifyCallsOf(answers, n) ==
  IF n = 0 THEN <<>>
  ELSE ClassifyCallsOf(answers, n - 1)
         \o ClassifyAttempts(ReconcileStarred[n].full_name, answers[n])

\* The state in which the flow enters ManageStarListsNode: the first four
\* nodes have run without a failed host call, and every starred repository
\* has its classification, whatever the inference gateway answered.
InitReconcile ==
  /\ config \in ReconcileConfigs
  /\ hostLists \in HostInits
  /\ hostAtStart = hostLists
  /\ hostFailures = 0
  /\ runNo = 1
  /\ prevRun = NoPrevRun
  /\ desc = NoDesc
  /\ parsed = NoParse
  /\ paging = NoPaging
  /\ pc = "ManageStarListsNode"
  /\ step = "prep"
  /\ sharedKeys = {"config", "github_client", "user_info", "starred_repos",
                   "mode", "existing_categories", "classification_results"}
  /\ starred_repos = ReconcileStarred
  /\ mode = "auto"
  /\ existing_categories = <<>>
  /\ filtered_repos = FilterExcluded(starred_repos, config.exclude_repos)
  /\ \E answers \in [DOMAIN ReconcileStarred -> ClassifyResponses] :
       /\ exec_res_list = [i \in DOMAIN ReconcileStarred |->
                             [key |-> ReconcileStarred[i].full_name,
                              value |-> AnalyzeRepository(answers[i])]]
       /\ llmCalls = ClassifyCallsOf(answers, Len(ReconcileStarred))
  /\ classification_results = DictFromPairs(exec_res_list)
  /\ list_cache = EmptyDict
  /\ existing_lists = <<>>
  /\ organized_repos = EmptyDict
  /\ enhanced_summaries = EmptyDict
  /\ results = EmptyDict
  /\ operation_results = EmptyDict
  /\ idx = 0
  /\ hostCalls = <<HostCall("get_user_info", 0, "", "", {}, TRUE),
                   HostCall("get_starred_repos", 0, "", "", {}, TRUE)>>
  /\ stages = SubSeq(StageOrder, 1, 4)

NextReconcile ==
  \/ ManageStart
  \/ ManageSummary
  \/ ManageApply
  \/ ManagePost

\* ManageStarListsNode from its start to the end of the flow.  The flow runs
\* without pausing: a step that can be taken is taken.
SpecReconcile == InitReconcile /\ [][NextReconcile]_vars /\ WF_vars(NextReconcile)

\* --------------------------------------------------------------- re-run
\* Live configurations in mode auto without exclusions, the descriptions
\* generated without the inference gateway.
RerunConfigs ==
  {c \in Configs : /\ ConfigValid(c)
                   /\ ~c.dry_run
                   /\ c.mode = "auto"
                   /\ c.exclude_repos = {}
                   /\ ~c.summary_options.use_ai_summary}

InitRerun ==
  /\ config \in RerunConfigs
  /\ hostLists \in HostInits
  /\ hostAtStart = hostLists
  /\ hostFailures = 0
  /\ runNo = 1
  /\ prevRun = NoPrevRun
  /\ desc = NoDesc
  /\ parsed = NoParse
  /\ paging = NoPaging
  /\ FreshRun

\* main_star_classification is started again, with the same configuration,
\* against the host as the first run left it; replay says whether the
\* inference gateway answers as it did in the first run.
StartAgain(replay) ==
  /\ pc \in {"done", "failed"}
  /\ runNo = 1
  /\ runNo' = runNo + 1
  /\ prevRun' = [outcome |-> pc, classification_results |-> classification_results,
                 operation_results |-> operation_results, hostCalls |-> hostCalls,
                 hostAtStart |-> hostAtStart, replay |-> replay]
  /\ hostAtStart' = hostLists
  /\ pc' = "InitializeNode"
  /\ step' = "exec"
  /\ sharedKeys' = {}
  /\ starred_repos' = <<>>
  /\ mode' = "unset"
  /\ existing_categories' = <<>>
  /\ filtered_repos' = <<>>
  /\ exec_res_list' = <<>>
  /\ classification_results' = EmptyDict
  /\ list_cache' = EmptyDict
  /\ existing_lists' = <<>>
  /\ organized_repos' = EmptyDict
  /\ enhanced_summaries' = EmptyDict
  /\ results' = EmptyDict
  /\ operation_results' = EmptyDict
  /\ idx' = 0
  /\ hostCalls' = <<>>
  /\ llmCalls' = <<>>
  /\ stages' = <<>>
  /\ UNCHANGED <<config, hostLists, hostFailures, desc, parsed, paging>>

\* The second run with the first run's classification answers.
StartRerun == StartAgain(TRUE)

NextRerun ==
  \/ Next
  \/ StartRerun

\* Two runs of main_star_classification with the same inputs, one after the
\* other, against the same host.
SpecRerun == InitRerun /\ [][NextRerun]_vars

\* ----------------------------------------------------- re-classification
\* The second run with classification answers of its own: a repository may
\* land in another category than before.
StartReclassify == StartAgain(FALSE)

\* The host answers every call of both runs normally: no failure is left to
\* draw.
InitReclassify ==
  /\ config \in RerunConfigs
  /\ hostLists \in HostInits
  /\ hostAtStart = hostLists
  /\ hostFailures = MaxHostFailures
  /\ runNo = 1
  /\ prevRun = NoPrevRun
  /\ desc = NoDesc
  /\ parsed = NoParse
  /\ paging = NoPaging
  /\ FreshRun

NextReclassify ==
  \/ Next
  \/ StartReclassify

\* Two runs of main_star_classification against the same host, the second
\* classifying afresh.
SpecReclassify == InitReclassify /\ [][NextReclassify]_vars

\* ------------------------------------------- the fallback description alone
\* Repositories the groups of SpecDesc are made of.
DescPool ==
  << [id |-> 1, full_name |-> "a/x", language |-> "Python", stargazers_count |-> 10],
     [id |-> 2, full_name |-> "a/y", language |-> "Python", stargazers_count |-> 5],
     [id |-> 3, full_name |-> "a/z", language |-> "Go", stargazers_count |-> 1],
     [id |-> 4, full_name |-> "a/w", language |-> "Rust", stargazers_count |-> 1005],
     [id |-> 5, full_name |-> "a/v", language |-> "C", stargazers_count |-> 0],
     [id |-> 6, full_name |-> "a/u", language |-> "", stargazers_count |-> 0] >>

\* The groups: the sequences of one to MaxGroup distinct repositories.
DescGroups ==
  UNION { {g \in [1..n -> DOMAIN DescPool] : \A i, j \in 1..n : g[i] = g[j] => i = j}
          : n \in 1..MaxGroup }

InitDesc ==
  /\ \E g \in DescGroups, category \in {"Tools", "Web"}, include_stats \in BOOLEAN :
       desc = [category |-> category, repos |-> [i \in DOMAIN g |-> DescPool[g[i]]],
               include_stats |-> include_stats, description |-> "",
               generated |-> FALSE]
  /\ config = [github_token |-> TRUE, openai_api_key |-> TRUE,
               dry_run |-> TRUE, mode |-> "auto", exclude_repos |-> {},
               summary_options |-> [auto_complete |-> TRUE, enhance_existing |-> TRUE,
                                    use_ai_summary |-> FALSE,
                                    include_stats |-> desc.include_stats]]
  /\ hostLists = <<>>
  /\ hostAtStart = hostLists
  /\ hostFailures = 0
  /\ runNo = 1
  /\ prevRun = NoPrevRun
  /\ parsed = NoParse
  /\ paging = NoPaging
  /\ FreshRun

\* complete_list_summaries decides the description of a category that has
\* no existing list, with use_ai_summary off.
GenerateDescription ==
  /\ ~desc.generated
  /\ desc' = [desc EXCEPT
               !.description = DecideSummary(<<>>, desc.category, desc.repos,
                                             config.summary_options, NoCall),
               !.generated = TRUE]
  /\ UNCHANGED <<config, hostLists, pc, step, sharedKeys, starred_repos, mode,
                 existing_categories, filtered_repos, exec_res_list,
                 classification_results, list_cache, existing_lists,
                 organized_repos, enhanced_summaries, results, operation_results,
                 idx, hostCalls, llmCalls, stages, hostFailures, hostAtStart,
                 runNo, prevRun, parsed, paging>>

NextDesc == GenerateDescription

\* The description generator applied to each group.
SpecDesc == InitDesc /\ [][NextDesc]_vars

\* ------------------------------------------------- mode existing_lists alone
\* The host holds one list, so the inference gateway may answer with a
\* category that is not among the existing ones.
HostOneList ==
  <<[id |-> 1, name |-> "Web", description |-> "old desc", items |-> {}]>>

\* The valid configurations in mode existing_lists without exclusions.
ExistingModeConfigs ==
  {c \in Configs : /\ ConfigValid(c)
                   /\ c.mode = "existing_lists"
                   /\ c.exclude_repos = {}}

InitExisting ==
  /\ config \in ExistingModeConfigs
  /\ hostLists = HostOneList
  /\ hostAtStart = hostLists
  /\ hostFailures = 0
  /\ runNo = 1
  /\ prevRun = NoPrevRun
  /\ desc = NoDesc
  /\ parsed = NoParse
  /\ paging = NoPaging
  /\ FreshRun

\* One run in mode existing_lists against a host that holds one list.
SpecExisting == InitExisting /\ [][Next]_vars

\* -------------------------------------------------- the response parser alone
\* The most fences of a response.
MaxFences == 2

\* The tokens of a response that are fences (three backticks, written <fence>
\* here): the one followed by the tag yaml, and the one without a tag.
YamlFence == "<fence>yaml"
BareFence == "<fence>"
Fences == {YamlFence, BareFence}

\* YAML documents the inference gateway writes, as texts.
YamlDocs ==
  { "category: Web\nreason: fits\nconfidence: 0.9",
    "category: Tools",
    "category: Web\nconfidence: high",
    "category: Tools\nconfidence: \"0.7\"",
    "reason: fits",
    "- Web",
    "category: [" }

\* A YAML scalar as safe_load returns it: its Python type and its text.
Scalar(type, text) == [type |-> type, text |-> text]

\* yaml.safe_load on a payload: a mapping, another value (a list, a string,
\* None for the empty text), or a YAMLError.
YamlSafeLoad(payload) ==
  IF payload = "" THEN [kind |-> "other"]
  ELSE IF payload = "category: Web\nreason: fits\nconfidence: 0.9"
  THEN [kind |-> "mapping",
        entries |-> <<[key |-> "category", value |-> Scalar("str", "Web")],
                      [key |-> "reason", value |-> Scalar("str", "fits")],
                      [key |-> "confidence", value |-> Scalar("float", "0.9")]>>]
  ELSE IF payload = "category: Tools"
  THEN [kind |-> "mapping",
        entries |-> <<[key |-> "category", value |-> Scalar("str", "Tools")]>>]
  ELSE IF payload = "category: Web\nconfidence: high"
  THEN [kind |-> "mapping",
        entries |-> <<[key |-> "category", value |-> Scalar("str", "Web")],
                      [key |-> "confidence", value |-> Scalar("str", "high")]>>]
  ELSE IF payload = "category: Tools\nconfidence: \"0.7\""
  THEN [kind |-> "mapping",
        entries |-> <<[key |-> "category", value |-> Scalar("str", "Tools")],
                      [key |-> "confidence", value |-> Scalar("str", "0.7")]>>]
  ELSE IF payload = "reason: fits"
  THEN [kind |-> "mapping",
        entries |-> <<[key |-> "reason", value |-> Scalar("str", "fits")]>>]
  ELSE IF payload = "- Web" THEN [kind |-> "other"]
  ELSE [kind |-> "error"]

\* The texts float() converts, with their values in hundredths.
FloatTexts == <<[key |-> "0.9", value |-> 90], [key |-> "0.7", value |-> 70]>>

\* Whether float() accepts the scalar; it raises ValueError otherwise.
FloatAccepts(scalar) == DictHas(FloatTexts, scalar.text)

\* float() of a scalar it accepts, in hundredths.
Float(scalar) == DictGet(FloatTexts, scalar.text)

\* What the gateway may put between two fences: nothing, a document, or a
\* document inside whitespace.
SegmentContents ==
  {<<>>} \cup {<<d>> : d \in YamlDocs}
         \cup {<<" ", "category: Web\nreason: fits\nconfidence: 0.9", " ">>}

\* The segments with the fences between them, as one text.
RECURSIVE Fenced(_, _, _)
Fenced(contents, fences, n) ==
  IF n = 0 THEN contents[1]
  ELSE Fenced(contents, fences, n - 1) \o <<fences[n]>> \o contents[n + 1]

\* The responses: up to MaxFences fences, tagged or not.
Responses ==
  UNION { {Fenced(c, f, n) : c \in [1..(n + 1) -> SegmentContents],
                             f \in [1..n -> Fences]}
          : n \in 0..MaxFences }

\* The index of the first token that is one of the marks, one past the end
\* when there is none.
FirstIndex(tokens, marks) ==
  IF \E i \in DOMAIN tokens : tokens[i] \in marks
  THEN CHOOSE i \in DOMAIN tokens :
         /\ tokens[i] \in marks
         /\ \A j \in 1..(i - 1) : tokens[j] \notin marks
  ELSE Len(tokens) + 1

\* text.split(mark)[1]: what follows the first mark, up to the next one.
SplitSecond(tokens, mark) ==
  LET rest == SubSeq(tokens, FirstIndex(tokens, {mark}) + 1, Len(tokens))
  IN  SubSeq(rest, 1, FirstIndex(rest, {mark}) - 1)

\* text.split(<fence>)[0]: what precedes the first fence; the text of a tagged
\* fence begins with the fence.
SplitFirst(tokens) == SubSeq(tokens, 1, FirstIndex(tokens, Fences) - 1)

\* Mutant: the block tagged yaml is not preferred.
YamlPart_FirstFence(response) ==
  IF \E i \in DOMAIN response : response[i] \in Fences
  THEN LET rest == SubSeq(response, FirstIndex(response, Fences) + 1, Len(response))
       IN  Strip(SplitFirst(rest))
  ELSE Strip(response)

\* The payload _parse_ai_response extracts from the response.
YamlPart(response) ==
  IF \E i \in DOMAIN response : response[i] = YamlFence
  THEN Strip(SplitFirst(SplitSecond(response, YamlFence)))
  ELSE IF \E i \in DOMAIN response : response[i] = BareFence
  THEN Strip(SplitFirst(SplitSecond(response, BareFence)))
  ELSE Strip(response)

\* The loaded payload as _parse_ai_response reads it: the checks for a
\* mapping and for category, then the defaults.
LoadedResponse(loaded) ==
  IF loaded.kind # "mapping" THEN [kind |-> "not_dict"]
  ELSE IF ~DictHas(loaded.entries, "category") THEN [kind |-> "no_category"]
  ELSE [kind |-> "dict",
        category |-> DictGet(loaded.entries, "category").text,
        reason |-> IF DictHas(loaded.entries, "reason")
                   THEN DictGet(loaded.entries, "reason").text
                   ELSE "No reason provided",
        confidence |-> IF DictHas(loaded.entries, "confidence")
                       THEN Float(DictGet(loaded.entries, "confidence"))
                       ELSE DefaultConfidence]

\* RepositoryAnalyzer._parse_ai_response on the text of a response: every
\* exception raised on the way gives the sentinel.
ParseResponseText(response) ==
  LET loaded == YamlSafeLoad(YamlPart(response))
  IN  IF loaded.kind = "error"
      THEN Sentinel("Failed to parse AI response: YAMLError")
      ELSE IF /\ loaded.kind = "mapping"
              /\ DictHas(loaded.entries, "category")
              /\ DictHas(loaded.entries, "confidence")
              /\ ~FloatAccepts(DictGet(loaded.entries, "confidence"))
      THEN Sentinel("Failed to parse AI response: could not convert string to float")
      ELSE ParseAiResponse(LoadedResponse(loaded))

InitParse ==
  /\ \E response \in Responses :
       parsed = [response |-> response, result |-> [kind |-> "none"],
                 parsed |-> FALSE]
  /\ config = [github_token |-> TRUE, openai_api_key |-> TRUE,
               dry_run |-> TRUE, mode |-> "auto", exclude_repos |-> {},
               summary_options |-> [auto_complete |-> TRUE, enhance_existing |-> TRUE,
                                    use_ai_summary |-> FALSE, include_stats |-> TRUE]]
  /\ hostLists = <<>>
  /\ hostAtStart = hostLists
  /\ hostFailures = 0
  /\ runNo = 1
  /\ prevRun = NoPrevRun
  /\ desc = NoDesc
  /\ paging = NoPaging
  /\ FreshRun

\* _parse_ai_response is applied to the response.
ParseResponse ==
  /\ ~parsed.parsed
  /\ parsed' = [parsed EXCEPT !.result = ParseResponseText(parsed.response),
                              !.parsed = TRUE]
  /\ UNCHANGED <<config, hostLists, pc, step, sharedKeys, starred_repos, mode,
                 existing_categories, filtered_repos, exec_res_list,
                 classification_results, list_cache, existing_lists,
                 organized_repos, enhanced_summaries, results, operation_results,
                 idx, hostCalls, llmCalls, stages, hostFailures, hostAtStart,
                 runNo, prevRun, desc, paging>>

NextParse == ParseResponse

\* The response parser applied to each response.
SpecParse == InitParse /\ [][NextParse]_vars

\* ------------------------------------------------------ the page loop alone
\* The default per_page of get_starred_repos, and the number of repositories
\* from which it asks for no further page.
PerPage == 100
MaxCollected == 1000

\* What the host answers a page request with: a number of repositories up to
\* the per_page asked for, or a failure.
PageAnswers == [kind : {"page"}, length : 0..PerPage] \cup {[kind |-> "error", length |-> 0]}

\* Mutant: a further page is asked for when exactly MaxCollected are held.
LastPage_CapExclusive(page_len, total) ==
  page_len < PerPage \/ total > MaxCollected

\* The test after repos.extend: whether the page just added is the last one.
LastPage(page_len, total) ==
  page_len < PerPage \/ total >= MaxCollected

InitPages ==
  /\ paging = [page |-> 1, repos |-> 0, requests |-> <<>>, lengths |-> <<>>,
               returned |-> FALSE, raised |-> FALSE]
  /\ config = [github_token |-> TRUE, openai_api_key |-> TRUE,
               dry_run |-> TRUE, mode |-> "auto", exclude_repos |-> {},
               summary_options |-> [auto_complete |-> TRUE, enhance_existing |-> TRUE,
                                    use_ai_summary |-> FALSE, include_stats |-> TRUE]]
  /\ hostLists = <<>>
  /\ hostAtStart = hostLists
  /\ hostFailures = 0
  /\ runNo = 1
  /\ prevRun = NoPrevRun
  /\ desc = NoDesc
  /\ parsed = NoParse
  /\ FreshRun

\* One turn of the loop of get_starred_repos: the page is requested; a
\* failure leaves the function, an empty page ends the loop, any other page
\* is added and is the last one or not.
RequestPage ==
  /\ ~paging.returned
  /\ \E answer \in PageAnswers :
       LET total == paging.repos + answer.length
           asked == Append(paging.requests, paging.page)
       IN  paging' =
             IF answer.kind = "error"
             THEN [paging EXCEPT !.requests = asked, !.returned = TRUE,
                                 !.raised = TRUE]
             ELSE IF answer.length = 0
             THEN [paging EXCEPT !.requests = asked,
                                 !.lengths = Append(paging.lengths, 0),
                                 !.returned = TRUE]
             ELSE IF LastPage(answer.length, total)
             THEN [paging EXCEPT !.requests = asked,
                                 !.lengths = Append(paging.lengths, answer.length),
                                 !.repos = total, !.returned = TRUE]
             ELSE [paging EXCEPT !.requests = asked,
                                 !.lengths = Append(paging.lengths, answer.length),
                                 !.repos = total, !.page = paging.page + 1]
  /\ UNCHANGED <<config, hostLists, pc, step, sharedKeys, starred_repos, mode,
                 existing_categories, filtered_repos, exec_res_list,
                 classification_results, list_cache, existing_lists,
                 organized_repos, enhanced_summaries, results, operation_results,
                 idx, hostCalls, llmCalls, stages, hostFailures, hostAtStart,
                 runNo, prevRun, desc, parsed>>

NextPages == RequestPage

\* get_starred_repos with the default per_page; the loop does not pause.
SpecPages == InitPages /\ [][NextPages]_vars /\ WF_vars(NextPages)

\* -------------------------------------------------------- the grouping alone
\* The most entries of a classification mapping given to the grouping.
MaxEntries == 3

\* The classification mappings: up to MaxEntries entries with distinct full
\* names, each with a category.
Classifications ==
  UNION { { [i \in 1..n |-> [key |-> RepoNames[k[i]],
                             value |-> [category |-> c[i], reason |-> "fits",
                                        confidence |-> LLMConfidence(c[i])]]]
            : k \in {f \in [1..n -> DOMAIN RepoNames] :
                       \A i, j \in 1..n : f[i] = f[j] => i = j},
              c \in [1..n -> LLMCategories] }
          : n \in 0..MaxEntries }

\* The arguments of organize_repos_by_category: a classification mapping and
\* a list of starred repositories that need not hold every classified name.
InitOrganize ==
  /\ classification_results \in Classifications
  /\ starred_repos \in {SubSeq(HostStarred, 1, n) : n \in 0..Len(HostStarred)}
  /\ pc = "organize_repos_by_category"
  /\ step = "call"
  /\ organized_repos = EmptyDict
  /\ config = [github_token |-> TRUE, openai_api_key |-> TRUE,
               dry_run |-> TRUE, mode |-> "auto", exclude_repos |-> {},
               summary_options |-> [auto_complete |-> TRUE, enhance_existing |-> TRUE,
                                    use_ai_summary |-> FALSE, include_stats |-> TRUE]]
  /\ hostLists = <<>>
  /\ hostAtStart = hostLists
  /\ hostFailures = 0
  /\ runNo = 1
  /\ prevRun = NoPrevRun
  /\ desc = NoDesc
  /\ parsed = NoParse
  /\ paging = NoPaging
  /\ sharedKeys = {}
  /\ mode = "unset"
  /\ existing_categories = <<>>
  /\ filtered_repos = <<>>
  /\ exec_res_list = <<>>
  /\ list_cache = EmptyDict
  /\ existing_lists = <<>>
  /\ enhanced_summaries = EmptyDict
  /\ results = EmptyDict
  /\ operation_results = EmptyDict
  /\ idx = 0
  /\ hostCalls = <<>>
  /\ llmCalls = <<>>
  /\ stages = <<>>

\* organize_repos_by_category is applied to the arguments.
Organize ==
  /\ pc = "organize_repos_by_category"
  /\ step = "call"
  /\ organized_repos' = OrganizeReposByCategory(classification_results, starred_repos)
  /\ step' = "returned"
  /\ UNCHANGED <<config, hostLists, pc, sharedKeys, starred_repos, mode,
                 existing_categories, filtered_repos, exec_res_list,
                 classification_results, list_cache, existing_lists,
                 enhanced_summaries, results, operation_results, idx, hostCalls,
                 llmCalls, stages, hostFailures, hostAtStart, runNo, prevRun,
                 desc, parsed, paging>>

NextOrganize == Organize

\* The grouping applied to each pair of arguments.
SpecOrganize == InitOrganize /\ [][NextOrganize]_vars

\* ------------------------------------------------------------------ main.py
\* Mutant: the run is reported as failed when a category's result is.
MainReturns_AllSucceeded(end, results_of_run) ==
  /\ end = "done"
  /\ \A i \in DOMAIN results_of_run : results_of_run[i].value.success

\* The value main_star_classification returns: True after flow.run returned,
\* False when an exception left it; the per-category results play no part.
MainReturns(end, results_of_run) == end = "done"

\* total_categories and successful_ops as main_star_classification reports
\* them.
TotalCategories(results_of_run) == Len(results_of_run)
SuccessfulOps(results_of_run) ==
  Cardinality({i \in DOMAIN results_of_run : results_of_run[i].value.success})

\* ============================================================== properties
\* Full names of the starred repositories that are not excluded.
Candidates ==
  {starred_repos[i].full_name : i \in DOMAIN starred_repos} \ config.exclude_repos

\* The full names classified into a category, in the order of the mapping.
GroupNames(category) ==
  LET entries == SelectSeq(classification_results,
                           LAMBDA e : e.value.category = category)
  IN  [i \in DOMAIN entries |-> entries[i].key]

\* The categories with at least one classified repository.
GroupedCategories ==
  {classification_results[i].value.category : i \in DOMAIN classification_results}

\* The category a mutating host call was issued for.
CategoryOfCall(call) ==
  IF call.op = "create_star_list" THEN call.name
  ELSE LET l == CHOOSE l \in {hostLists[i] : i \in DOMAIN hostLists} : l.id = call.list_id
       IN  l.name

\* The mutating host calls of this run.
Mutations == {i \in DOMAIN hostCalls : hostCalls[i].op \in MutatingOps}

\* The run has ended with the Reconcile stage completed.
ReconcileDone == pc = "done"

\* C1 -- Dry-run purity: with dry_run set no create_star_list,
\* update_star_list or add_repos_to_list call is ever issued and the host's
\* lists stay as they were; when the run ends every category with at least
\* one grouped repository has a result with success true, action "dry_run",
\* repos_count the size of the group and repos the group's full names.
C1_DryRunPurity ==
  config.dry_run =>
    /\ Mutations = {}
    /\ hostLists = hostAtStart
    /\ ReconcileDone =>
         \A c \in GroupedCategories :
           /\ DictHas(operation_results, c)
           /\ LET r == DictGet(operation_results, c)
              IN  /\ r.success
                  /\ r.action = "dry_run"
                  /\ r.repos_count = Len(GroupNames(c))
                  /\ r.repos = GroupNames(c)

\* A dry run ended with a group of two repositories and an existing list.
C1_Witness ==
  /\ config.dry_run
  /\ ReconcileDone
  /\ hostLists # <<>>
  /\ \E c \in GroupedCategories : Len(GroupNames(c)) = 2

\* The kinds of answer that make the classification of a repository fail.
FailedKinds == {"error", "not_dict", "no_category"}

\* The classification calls of this run.
ClassifyCalls == {i \in DOMAIN llmCalls : llmCalls[i].purpose = "classify"}

\* C3 -- Classifier failure isolation: once the batch stage has written the
\* mapping, a repository whose inference call or parse failed has an entry
\* with category "Uncategorized" and confidence 0.1, and every other entry is
\* the category, reason and confidence of that repository's own answer,
\* whatever happened to the other repositories.
C3_FailureIsolation ==
  "classification_results" \in sharedKeys =>
    \A i \in ClassifyCalls :
      LET call == llmCalls[i]
      IN  /\ DictHas(classification_results, call.subject)
          /\ LET r == DictGet(classification_results, call.subject)
             IN  IF call.response.kind \in FailedKinds
                 THEN r.category = "Uncategorized" /\ r.confidence = 10
                 ELSE /\ r.category = call.response.category
                      /\ r.reason = call.response.reason
                      /\ r.confidence = call.response.confidence

\* The mapping is written after one repository's inference call failed and
\* another repository was classified.
C3_Witness ==
  /\ "classification_results" \in sharedKeys
  /\ \E i \in ClassifyCalls : llmCalls[i].response.kind = "error"
  /\ \E i \in ClassifyCalls : llmCalls[i].response.kind = "dict"

\* C4 -- Exclusion correctness: a starred repository whose full_name is in
\* exclude_repos gets no classification call, has no key in the mapping (nor
\* a batch result), is in no category group and in no add_repos_to_list call.
C4_ExclusionCorrectness ==
  \A n \in DOMAIN starred_repos :
    LET repo == starred_repos[n]
    IN  repo.full_name \in config.exclude_repos =>
          /\ \A i \in ClassifyCalls : llmCalls[i].subject # repo.full_name
          /\ ~DictHas(classification_results, repo.full_name)
          /\ \A i \in DOMAIN exec_res_list : exec_res_list[i].key # repo.full_name
          /\ \A i \in DOMAIN organized_repos :
               \A j \in DOMAIN organized_repos[i].value :
                 organized_repos[i].value[j].full_name # repo.full_name
          /\ \A i \in DOMAIN hostCalls :
               hostCalls[i].op = "add_repos_to_list" => repo.id \notin hostCalls[i].repo_ids

\* A live run with an excluded starred repository ended after adding the
\* other repositories to a list.
C4_Witness ==
  /\ ReconcileDone
  /\ ~config.dry_run
  /\ \E n \in DOMAIN starred_repos : starred_repos[n].full_name \in config.exclude_repos
  /\ \E i \in DOMAIN hostCalls :
       hostCalls[i].op = "add_repos_to_list" /\ hostCalls[i].ok

\* The categories a mutating host call failed for.
FailedCategories ==
  {CategoryOfCall(hostCalls[i]) : i \in {j \in Mutations : ~hostCalls[j].ok}}

\* C5 -- Per-category partial-failure isolation: when a live run ends, a
\* category for which create_star_list, update_star_list or add_repos_to_list
\* failed has the result {success: false, error: message}, and every other
\* category with at least one repository has been processed and has its own,
\* successful, result.
C5_PartialFailureIsolation ==
  (ReconcileDone /\ ~config.dry_run) =>
    /\ DictKeys(operation_results) = GroupedCategories
    /\ \A i \in Mutations :
         ~hostCalls[i].ok =>
           LET r == DictGet(operation_results, CategoryOfCall(hostCalls[i]))
           IN  ~r.success /\ r.error = hostCalls[i].op \o " failed"
    /\ \A c \in GroupedCategories \ FailedCategories :
         DictGet(operation_results, c).success

\* A live run ended in which a host call failed for the first category and
\* the category after it was processed with success.
C5_Witness ==
  /\ ReconcileDone
  /\ ~config.dry_run
  /\ Len(operation_results) >= 2
  /\ ~operation_results[1].value.success
  /\ operation_results[2].value.success

\* C6 -- The pipeline never drops a repository: once the batch stage has
\* written the mapping, its keys are the full names of the starred
\* repositories not in exclude_repos, and each key was written once.
C6_NeverDrops ==
  "classification_results" \in sharedKeys =>
    /\ DictKeys(classification_results) = Candidates
    /\ \A k \in DictKeys(classification_results) :
         Cardinality({i \in DOMAIN exec_res_list : exec_res_list[i].key = k}) = 1

\* The mapping is written in a run with an excluded repository and a
\* repository whose classification failed.
C6_Witness ==
  /\ "classification_results" \in sharedKeys
  /\ config.exclude_repos # {}
  /\ classification_results # EmptyDict
  /\ \E i \in ClassifyCalls : llmCalls[i].response.kind \in FailedKinds

\* The lists of a name among the lists the Reconcile stage fetched.
Named(category) ==
  {existing_lists[i] : i \in {j \in DOMAIN existing_lists : existing_lists[j].name = category}}

\* The inference calls made for the description of a category.
DescriptionCalls(category) ==
  {i \in DOMAIN llmCalls :
     llmCalls[i].purpose \in {"summary", "enhance"} /\ llmCalls[i].subject = category}

\* The update_star_list calls issued for a list.
UpdateCalls(list_id) ==
  {i \in DOMAIN hostCalls :
     hostCalls[i].op = "update_star_list" /\ hostCalls[i].list_id = list_id}

\* C8 -- With enhance_existing off, a category whose existing list has a
\* non-empty description keeps that description verbatim as its decided
\* description, no inference call is made for it, and update_star_list is
\* never called for that list.
C8_KeepExistingDescription ==
  ~config.summary_options.enhance_existing =>
    \A i \in DOMAIN organized_repos :
      LET c == organized_repos[i].key
      IN  \A l \in Named(c) :
            l.description # "" =>
              /\ DictHas(enhanced_summaries, c) =>
                   DictGet(enhanced_summaries, c) = l.description
              /\ DescriptionCalls(c) = {}
              /\ UpdateCalls(l.id) = {}

\* A live run with enhance_existing off ended with the repositories added to
\* an existing list that has a description.
C8_Witness ==
  /\ ReconcileDone
  /\ ~config.dry_run
  /\ ~config.summary_options.enhance_existing
  /\ \E i \in DOMAIN operation_results :
       /\ \E l \in Named(operation_results[i].key) : l.description # ""
       /\ operation_results[i].value.success
       /\ operation_results[i].value.action = "updated"

\* C9 -- Enhancement failure keeps the original: when the inference call made
\* to enhance the description of an existing list fails, the decided
\* description of the category is the existing description and no
\* update_star_list call is issued for that list.
C9_EnhanceFailureKeepsOriginal ==
  \A i \in DOMAIN llmCalls :
    (llmCalls[i].purpose = "enhance" /\ llmCalls[i].response.kind = "error") =>
      LET c == llmCalls[i].subject
      IN  \A l \in Named(c) :
            /\ l.description # ""
            /\ config.summary_options.enhance_existing
            /\ DictHas(enhanced_summaries, c)
            /\ DictGet(enhanced_summaries, c) = l.description
            /\ UpdateCalls(l.id) = {}

\* A live run ended in which the enhancement call of an existing list failed
\* and the repositories were added to that list.
C9_Witness ==
  /\ ReconcileDone
  /\ ~config.dry_run
  /\ \E i \in DOMAIN llmCalls :
       /\ llmCalls[i].purpose = "enhance"
       /\ llmCalls[i].response.kind = "error"
       /\ DictGet(operation_results, llmCalls[i].subject).success

\* The keys a stage writes to the shared context.
StageOutputs(node) ==
  CASE node = "InitializeNode" -> {"config", "github_client", "user_info"}
    [] node = "FetchStarredReposNode" -> {"starred_repos"}
    [] node = "ModeDecisionNode" -> {"mode", "existing_lists", "existing_categories"}
    [] node = "AnalyzeRepositoriesNode" -> {"classification_results"}
    [] node = "ManageStarListsNode" -> {"organized_repos", "operation_results"}

\* C10 -- Stage ordering: the stages started so far are a prefix of
\* Initialize, FetchStarredRepos, ModeDecision, BatchClassification,
\* Reconcile (fixed order, each at most once); a stage has started only after
\* the one before it wrote its outputs to the shared context, and the stage
\* the flow is at is the last one started or the next one; a mutating host
\* call has been issued only after every candidate repository's
\* classification call returned and the mapping was written.
C10_StageOrdering ==
  /\ Len(stages) <= Len(StageOrder)
  /\ stages = SubSeq(StageOrder, 1, Len(stages))
  /\ \A k \in 2..Len(stages) : StageOutputs(StageOrder[k - 1]) \subseteq sharedKeys
  /\ pc \in {"done", "failed"}
       \/ (Len(stages) > 0 /\ pc = stages[Len(stages)])
       \/ (Len(stages) < Len(StageOrder) /\ pc = StageOrder[Len(stages) + 1])
  /\ Mutations # {} =>
       /\ "classification_results" \in sharedKeys
       /\ {llmCalls[i].subject : i \in ClassifyCalls} = Candidates
       /\ stages = StageOrder

\* A live run ended after all five stages, with a mutating host call.
C10_Witness ==
  /\ ReconcileDone
  /\ stages = StageOrder
  /\ Mutations # {}
  /\ ClassifyCalls # {}

\* Every call of a log was answered normally.
AllOk(calls) == \A i \in DOMAIN calls : calls[i].ok

\* The names of the lists of a host.
ListNames(host) == {host[i].name : i \in DOMAIN host}

\* The create_star_list calls of a log for a name.
CreateCalls(calls, name) ==
  {i \in DOMAIN calls : calls[i].op = "create_star_list" /\ calls[i].name = name}

\* Two live runs have ended with the same classification, the host held no
\* list of a classified category before the first one, and every host call
\* of both runs was answered normally.
TwoCleanRuns ==
  /\ runNo = 2
  /\ ReconcileDone
  /\ prevRun.outcome = "done"
  /\ ~config.dry_run
  /\ classification_results = prevRun.classification_results
  /\ GroupedCategories \cap ListNames(prevRun.hostAtStart) = {}
  /\ AllOk(prevRun.hostCalls)
  /\ AllOk(hostCalls)

\* C2 -- Idempotence of reconciliation: after two live runs with the same
\* classification, from a host that held none of the categories and with every
\* host call answered normally, each category has action "created" in the
\* first run and "updated" in the second, the host holds one list of its name
\* and create_star_list was issued for it once in the first run and not at
\* all in the second.
C2_Idempotence ==
  TwoCleanRuns =>
    \A c \in GroupedCategories :
      /\ DictHas(prevRun.operation_results, c)
      /\ DictGet(prevRun.operation_results, c).success
      /\ DictGet(prevRun.operation_results, c).action = "created"
      /\ DictHas(operation_results, c)
      /\ DictGet(operation_results, c).success
      /\ DictGet(operation_results, c).action = "updated"
      /\ Cardinality({i \in DOMAIN hostLists : hostLists[i].name = c}) = 1
      /\ Cardinality(CreateCalls(prevRun.hostCalls, c)) = 1
      /\ CreateCalls(hostCalls, c) = {}

\* Two such runs have ended with two categories.
C2_Witness ==
  /\ TwoCleanRuns
  /\ Cardinality(GroupedCategories) = 2

\* The languages of the group of SpecDesc.
DescLanguages == {desc.repos[i].language : i \in DOMAIN desc.repos} \ {""}

\* Number of repositories of the group with a language.
LanguageCount(l) == Cardinality({i \in DOMAIN desc.repos : desc.repos[i].language = l})

\* Position of the first repository of the group with a language.
FirstSeen(l) ==
  CHOOSE i \in DOMAIN desc.repos :
    /\ desc.repos[i].language = l
    /\ \A j \in DOMAIN desc.repos : desc.repos[j].language = l => i <= j

\* Language a ranks before language b: more repositories, or as many and
\* encountered first.
RanksBefore(a, b) ==
  \/ LanguageCount(a) > LanguageCount(b)
  \/ LanguageCount(a) = LanguageCount(b) /\ FirstSeen(a) < FirstSeen(b)

\* The top three languages, best first.
ExpectedTopLanguages ==
  [k \in 1..Min2(3, Cardinality(DescLanguages)) |->
     CHOOSE l \in DescLanguages :
       Cardinality({m \in DescLanguages : RanksBefore(m, l)}) = k - 1]

\* The names of a sequence, comma-joined.
CommaJoined(names) ==
  IF Len(names) = 0 THEN ""
  ELSE IF Len(names) = 1 THEN names[1]
  ELSE IF Len(names) = 2 THEN names[1] \o ", " \o names[2]
  ELSE names[1] \o ", " \o names[2] \o ", " \o names[3]

\* Sum of the star counts of the group.
ExpectedStars ==
  LET F[n \in 0..Len(desc.repos)] ==
        IF n = 0 THEN 0 ELSE F[n - 1] + desc.repos[n].stargazers_count
  IN  F[Len(desc.repos)]

\* A number below a million with a comma before its last three digits.
WithSeparator(n) ==
  IF n < 1000 THEN ToString(n)
  ELSE ToString(n \div 1000) \o "," \o ToString((n % 1000) \div 100)
       \o ToString((n % 100) \div 10) \o ToString(n % 10)

\* The text of the claim, the star sum written by render.
ExpectedDescription(render(_)) ==
  "Auto-categorized " \o desc.category \o " repositories ("
  \o ToString(Len(desc.repos)) \o " repos)"
  \o (IF DescLanguages # {}
      THEN " - Main languages: " \o CommaJoined(ExpectedTopLanguages) ELSE "")
  \o (IF desc.include_stats /\ ExpectedStars > 0
      THEN " - Total stars: " \o render(ExpectedStars) ELSE "")

\* C7 as amended -- Deterministic fallback description: with use_ai_summary
\* off, the description of a category with no existing list is
\* "Auto-categorized {category} repositories ({count} repos)", then
\* " - Main languages: " and the top three languages by repository count, ties
\* in first-encountered order, when a repository has a language, then
\* " - Total stars: " and the sum with a comma between groups of three digits
\* (1,015) when include_stats is on and the sum is positive.  The text is an
\* expression of the group, the category and include_stats alone.
C7_FallbackDescription ==
  desc.generated => desc.description = ExpectedDescription(WithSeparator)

\* C7 as stated: the sum is written as the plain number.
C7_PlainSum ==
  desc.generated => desc.description = ExpectedDescription(ToString)

\* The example of the claim: Python twice, Go once, stars 10, 5 and 1.
C7_Witness ==
  /\ desc.generated
  /\ desc.category = "Tools"
  /\ desc.include_stats
  /\ [i \in DOMAIN desc.repos |-> desc.repos[i].full_name] = <<"a/x", "a/y", "a/z">>
  /\ desc.description =
       "Auto-categorized Tools repositories (3 repos) - Main languages: Python, Go - Total stars: 16"

\* C11 -- Missing credentials fail fast: when github_token or openai_api_key
\* is not set, no call to the repository host or to the inference gateway is
\* ever made, nothing is written to the shared context, no stage after
\* Initialize starts, and once Initialize has run the run has ended with the
\* failure flag.
C11_MissingCredentialsFailFast ==
  ~(config.github_token /\ config.openai_api_key) =>
    /\ hostCalls = <<>>
    /\ llmCalls = <<>>
    /\ sharedKeys = {}
    /\ stages \in {<<>>, <<"InitializeNode">>}
    /\ pc = (IF stages = <<>> THEN "InitializeNode" ELSE "failed")

\* Initialize has run with the host credential set and the inference
\* credential missing.
C11_Witness ==
  /\ config.github_token
  /\ ~config.openai_api_key
  /\ stages = <<"InitializeNode">>
  /\ pc = "failed"

\* The host calls of the stages before the repositories are known.
FatalOps == {"get_user_info", "get_starred_repos"}

\* C12 -- Host failures in Initialize or FetchStarredRepos are fatal: when
\* get_user_info or get_starred_repos has failed, the run has ended with the
\* failure flag, that call is the last host call of the run, no inference
\* call and no create/update/add call was issued, and there are no
\* operation_results.
C12_FatalHostFailures ==
  \A i \in DOMAIN hostCalls :
    (hostCalls[i].op \in FatalOps /\ ~hostCalls[i].ok) =>
      /\ pc = "failed"
      /\ i = Len(hostCalls)
      /\ llmCalls = <<>>
      /\ Mutations = {}
      /\ "operation_results" \notin sharedKeys
      /\ operation_results = EmptyDict
      /\ stages = SubSeq(StageOrder, 1, i)

\* The fetch of the starred repositories failed after Initialize succeeded.
C12_Witness ==
  /\ Len(hostCalls) = 2
  /\ hostCalls[1].op = "get_user_info" /\ hostCalls[1].ok
  /\ hostCalls[2].op = "get_starred_repos" /\ ~hostCalls[2].ok
  /\ pc = "failed"

\* The classification calls made for a repository.
ClassifyCallsFor(full_name) == {i \in ClassifyCalls : llmCalls[i].subject = full_name}

\* C13 -- Inference call volume during classification: every repository the
\* batch stage has processed got exactly one inference call, whether the call
\* succeeded or failed, and no other repository got one; once the mapping is
\* written the number of classification calls equals the number of candidate
\* repositories (the starred repositories that are not excluded).
C13_ClassificationCallVolume ==
  /\ Cardinality(ClassifyCalls) = Len(exec_res_list)
  /\ \A n \in DOMAIN RepoNames :
       Cardinality(ClassifyCallsFor(RepoNames[n])) =
         (IF \E j \in DOMAIN exec_res_list : exec_res_list[j].key = RepoNames[n]
          THEN 1 ELSE 0)
  /\ "classification_results" \in sharedKeys =>
       /\ Cardinality(ClassifyCalls) = Cardinality(Candidates)
       /\ \A name \in Candidates : Cardinality(ClassifyCallsFor(name)) = 1

\* The run has ended with two candidates, the inference call of the first
\* failed and that of the second answered.
C13_Witness ==
  /\ ReconcileDone
  /\ Cardinality(Candidates) = 2
  /\ Cardinality(ClassifyCalls) = 2
  /\ llmCalls[1].purpose = "classify" /\ llmCalls[1].response.kind = "error"
  /\ llmCalls[2].purpose = "classify" /\ llmCalls[2].response.kind = "dict"

\* C14 -- Every result stored in the classification mapping has a confidence
\* between 0.0 and 1.0 (0 and 100 hundredths), whatever the inference gateway
\* answered.
C14_ConfidenceInRange ==
  \A i \in DOMAIN classification_results :
    /\ classification_results[i].value.confidence >= 0
    /\ classification_results[i].value.confidence <= 100

\* C15 -- Additive-only membership: no step of any run issues
\* remove_repos_from_list, and across every step the host keeps each list
\* with at least the members it had, so that a repository attached to a list
\* in the first run is still in it after the second run classified it into
\* another category.
C15_AdditiveOnly ==
  [][ /\ \A k \in DOMAIN hostCalls' : hostCalls'[k].op # "remove_repos_from_list"
      /\ \A i \in DOMAIN hostLists :
           /\ i \in DOMAIN hostLists'
           /\ hostLists'[i].id = hostLists[i].id
           /\ hostLists[i].items \subseteq hostLists'[i].items ]_vars

\* The category a mapping gives a repository.
CategoryIn(classification, full_name) == DictGet(classification, full_name).category

\* The second run has ended after attaching a repository to the list of
\* another category than the one the first run attached it to, and the
\* repository is a member of both lists.
C15_Witness ==
  /\ runNo = 2
  /\ ReconcileDone
  /\ \E n \in DOMAIN starred_repos :
       LET name == starred_repos[n].full_name
       IN  /\ DictHas(prevRun.classification_results, name)
           /\ DictHas(classification_results, name)
           /\ CategoryIn(prevRun.classification_results, name)
                # CategoryIn(classification_results, name)
           /\ \E a, b \in DOMAIN hostLists :
                /\ hostLists[a].name = CategoryIn(prevRun.classification_results, name)
                /\ hostLists[b].name = CategoryIn(classification_results, name)
                /\ starred_repos[n].id \in hostLists[a].items
                /\ starred_repos[n].id \in hostLists[b].items

\* The get_user_lists calls a node issued in this run.
FetchCallsBy(node) ==
  {i \in DOMAIN hostCalls : hostCalls[i].op = "get_user_lists" /\ hostCalls[i].by = node}

\* The Reconcile stage's fetch of the lists was answered with that outcome.
ReconcileFetched(outcome) ==
  \E i \in FetchCallsBy("ManageStarListsNode") : hostCalls[i].outcome = outcome

\* The repositories grouped under a category.
GroupOf(category) == DictGet(organized_repos, category)

\* C16 -- A 404 on the list fetch is not an error: the run does not end with
\* the failure flag because of it; a 404 answered to ModeDecision leaves the
\* context empty, and a 404 answered to the Reconcile stage leaves it with no
\* existing list and an empty cache, so that in a live run every category
\* processed gets exactly one create_star_list call, no update_star_list call
\* is issued, a successful result has action "created", and at the end every
\* category with a repository has a result.
C16_NotFoundIsEmpty ==
  \A i \in DOMAIN hostCalls :
    (hostCalls[i].op = "get_user_lists" /\ hostCalls[i].outcome = "not_found") =>
      /\ pc # "failed"
      /\ hostCalls[i].by = "ModeDecisionNode" => existing_categories = <<>>
      /\ hostCalls[i].by = "ManageStarListsNode" =>
           /\ existing_lists = <<>>
           /\ ~config.dry_run =>
                /\ \A k \in DOMAIN hostCalls : hostCalls[k].op # "update_star_list"
                /\ \A c \in DictKeys(results) :
                     /\ Cardinality(CreateCalls(hostCalls, c)) = 1
                     /\ DictGet(results, c).success => DictGet(results, c).action = "created"
                /\ ReconcileDone => DictKeys(operation_results) = GroupedCategories

\* A live run ended in which the Reconcile stage's fetch was answered 404 and
\* two categories were created.
C16_Witness ==
  /\ ReconcileDone
  /\ ~config.dry_run
  /\ ReconcileFetched("not_found")
  /\ Len(operation_results) = 2
  /\ \A i \in DOMAIN operation_results :
       operation_results[i].value.success /\ operation_results[i].value.action = "created"

\* C17 -- Live create path: a category processed in a live run that had no
\* list among those the Reconcile stage fetched gets one create_star_list
\* call, with its name and its decided description; when that call succeeds
\* the next host call is the single add_repos_to_list call for the created
\* list, carrying the ids of all repositories of the group; when both succeed
\* the result is {success: true, action: "created", list_id: the id of the
\* created list, repos_added: the size of the group}, the list cache contains
\* the name and the host's list has the repositories.
C17_CreatePath ==
  ~config.dry_run =>
    \A c \in DictKeys(results) :
      Named(c) = {} =>
        /\ Cardinality(CreateCalls(hostCalls, c)) = 1
        /\ LET k == CHOOSE k \in CreateCalls(hostCalls, c) : TRUE
               created == hostCalls[k]
           IN  /\ created.description = DictGet(enhanced_summaries, c)
               /\ ~created.ok => ~DictGet(results, c).success
               /\ created.ok =>
                    /\ k + 1 \in DOMAIN hostCalls
                    /\ LET add == hostCalls[k + 1]
                       IN  /\ add.op = "add_repos_to_list"
                           /\ add.repo_ids = RepoIds(GroupOf(c))
                           /\ Cardinality({j \in DOMAIN hostCalls :
                                 /\ hostCalls[j].op = "add_repos_to_list"
                                 /\ hostCalls[j].list_id = add.list_id}) = 1
                           /\ \E n \in DOMAIN hostLists :
                                /\ hostLists[n].id = add.list_id
                                /\ hostLists[n].name = c
                                /\ hostLists[n].description = created.description
                                /\ add.ok => RepoIds(GroupOf(c)) \subseteq hostLists[n].items
                           /\ add.ok =>
                                /\ DictGet(results, c) =
                                     [success |-> TRUE, action |-> "created",
                                      list_id |-> add.list_id,
                                      repos_added |-> Len(GroupOf(c)),
                                      enhanced_description |-> created.description]
                                /\ DictHas(list_cache, c)
                           /\ ~add.ok => ~DictGet(results, c).success

\* A live run ended in which a group of two repositories was attached to a
\* list created for it on a host that held other lists.
C17_Witness ==
  /\ ReconcileDone
  /\ ~config.dry_run
  /\ existing_lists # <<>>
  /\ \E i \in DOMAIN operation_results :
       /\ Named(operation_results[i].key) = {}
       /\ operation_results[i].value.success
       /\ operation_results[i].value.action = "created"
       /\ operation_results[i].value.repos_added = 2

\* The description differs from the cached one.
Differs(decided, cached) == decided # cached
\* The description is not empty and differs from the cached one.
DiffersAndNotEmpty(decided, cached) == decided # "" /\ decided # cached

\* The add_repos_to_list calls issued for a list.
AddCalls(list_id) ==
  {i \in DOMAIN hostCalls :
     hostCalls[i].op = "add_repos_to_list" /\ hostCalls[i].list_id = list_id}

\* The update path of a live run, update_star_list being due when
\* due(decided description, cached description): a category processed that
\* has a list among those fetched gets no create_star_list call; one
\* update_star_list call carrying the decided description is issued for the
\* cached list when due and none otherwise; unless the update failed, one
\* add_repos_to_list call follows with the ids of the whole group; when no
\* call failed the result is {success: true, action: "updated", list_id: the
\* cached id, repos_added: the size of the group}.
UpdatePath(due(_, _)) ==
  ~config.dry_run =>
    \A c \in DictKeys(results) :
      \A l \in Named(c) :
        LET decided == DictGet(enhanced_summaries, c)
            updates == UpdateCalls(l.id)
            adds == AddCalls(l.id)
            updateFailed == \E u \in updates : ~hostCalls[u].ok
        IN  /\ CreateCalls(hostCalls, c) = {}
            /\ Cardinality(updates) = (IF due(decided, l.description) THEN 1 ELSE 0)
            /\ \A u \in updates : hostCalls[u].description = decided
            /\ Cardinality(adds) = (IF updateFailed THEN 0 ELSE 1)
            /\ \A a \in adds :
                 /\ hostCalls[a].repo_ids = RepoIds(GroupOf(c))
                 /\ \A u \in updates : u < a
                 /\ IF hostCalls[a].ok
                    THEN DictGet(results, c) =
                           [success |-> TRUE, action |-> "updated", list_id |-> l.id,
                            repos_added |-> Len(GroupOf(c)),
                            enhanced_description |-> decided]
                    ELSE ~DictGet(results, c).success
            /\ updateFailed => ~DictGet(results, c).success

\* C18 as amended -- Live update path: for a category present in the list
\* cache, update_star_list is issued if and only if the decided description
\* is not empty and differs from the cached description; then one
\* add_repos_to_list call attaches all ids of the group; no create_star_list
\* is issued; the result is {success: true, action: "updated", list_id: the
\* cached id, repos_added: the size of the group}.
C18_UpdatePath == UpdatePath(DiffersAndNotEmpty)

\* C18 as stated: update_star_list is issued if and only if the decided
\* description differs from the cached description.
C18_UpdateIffDiffers == UpdatePath(Differs)

\* A live run ended in which the description of an existing list was replaced
\* by the inference gateway's text and the group was attached to it.
C18_Witness ==
  /\ ReconcileDone
  /\ ~config.dry_run
  /\ \E i \in DOMAIN operation_results :
       \E l \in Named(operation_results[i].key) :
         /\ operation_results[i].value.success
         /\ operation_results[i].value.action = "updated"
         /\ l.description # ""
         /\ \E u \in UpdateCalls(l.id) :
              hostCalls[u].ok /\ hostCalls[u].description = "AI text"

\* A category gets a fresh description: it has no existing list, or its
\* existing lists have an empty description and auto_complete is on.
FreshCategory(c) ==
  \/ Named(c) = {}
  \/ /\ config.summary_options.auto_complete
     /\ \A l \in Named(c) : l.description = ""

\* The text of an answer as the gateway sent it.
RawText(response) == Join("", response.text)
\* The text of an answer without its leading and trailing whitespace.
StrippedText(response) == Join("", RStrip(LStrip(response.text)))

\* The fresh-description policy, the gateway's text being read by text: a
\* category that gets a fresh description has, once decided, the gateway's
\* text when use_ai_summary is on and the one inference call made for it
\* succeeded, and the deterministic fallback description when use_ai_summary
\* is off (no call is made) or the call failed; the summary step decides a
\* description for every category and the run goes on.
FreshPolicy(text(_)) ==
  /\ \A c \in DictKeys(enhanced_summaries) :
       FreshCategory(c) =>
         LET decided == DictGet(enhanced_summaries, c)
             calls == DescriptionCalls(c)
             fallback == GenerateBasicDescription(c, GroupOf(c),
                                                  config.summary_options.include_stats)
         IN  IF config.summary_options.use_ai_summary
             THEN /\ Cardinality(calls) = 1
                  /\ \A k \in calls :
                       /\ llmCalls[k].purpose = "summary"
                       /\ IF llmCalls[k].response.kind = "text"
                          THEN decided = text(llmCalls[k].response)
                          ELSE decided = fallback
             ELSE /\ calls = {}
                  /\ decided = fallback
  /\ (pc = "ManageStarListsNode" /\ step = "apply") =>
       DictKeys(enhanced_summaries) = DictKeys(organized_repos)
  /\ "ManageStarListsNode" \in {stages[i] : i \in DOMAIN stages} => pc # "failed"

\* C19 as amended -- Fresh-description policy: the decided description is the
\* inference gateway's text with its leading and trailing whitespace removed
\* when use_ai_summary is true and the call succeeds, and the deterministic
\* fallback description whenever use_ai_summary is false or the call fails;
\* the summary step never raises.
C19_FreshDescription == FreshPolicy(StrippedText)

\* C19 as stated: the decided description is the inference gateway's text.
C19_FreshDescriptionRaw == FreshPolicy(RawText)

\* A run ended in which one new category got the gateway's text and another
\* one, whose inference call failed, the fallback description.
C19_Witness ==
  /\ ReconcileDone
  /\ config.summary_options.use_ai_summary
  /\ \E c, d \in DictKeys(enhanced_summaries) :
       /\ FreshCategory(c) /\ FreshCategory(d)
       /\ \E k \in DescriptionCalls(c) : llmCalls[k].response.kind = "text"
       /\ DictGet(enhanced_summaries, c) = "AI text"
       /\ \E k \in DescriptionCalls(d) : llmCalls[k].response.kind = "error"
       /\ DictGet(enhanced_summaries, d) =
            GenerateBasicDescription(d, GroupOf(d), config.summary_options.include_stats)

\* The names of lists, in their order.
NamesOf(lists) == [i \in DOMAIN lists |-> lists[i].name]

\* The stage has started in this run.
Started(node) == \E i \in DOMAIN stages : stages[i] = node

\* C20 -- List fetches per run: ModeDecision issues no fetch in mode auto and
\* leaves the context empty; in mode existing_lists it issues one fetch and
\* the names of the lists fetched, in fetch order, are the context (none when
\* the fetch was not answered with the lists).  The Reconcile stage issues
\* exactly one fetch, after ModeDecision's, and what that fetch returned is
\* alone what the list cache holds when reconciliation starts: the lists by
\* name when it was answered, nothing when it was not.
C20_ListFetches ==
  /\ Cardinality(FetchCallsBy("ModeDecisionNode")) =
       (IF config.mode = "existing_lists" /\ "mode" \in sharedKeys THEN 1 ELSE 0)
  /\ Cardinality(FetchCallsBy("ManageStarListsNode")) =
       (IF Started("ManageStarListsNode") THEN 1 ELSE 0)
  /\ \A i \in FetchCallsBy("ModeDecisionNode"), j \in FetchCallsBy("ManageStarListsNode") :
       i < j
  /\ "mode" \in sharedKeys =>
       IF config.mode = "auto"
       THEN mode = "auto" /\ existing_categories = <<>>
       ELSE /\ mode = "existing_lists"
            /\ \A i \in FetchCallsBy("ModeDecisionNode") :
                 existing_categories =
                   (IF hostCalls[i].outcome = "ok"
                    THEN NamesOf(hostAtStart) ELSE <<>>)
  /\ \A j \in FetchCallsBy("ManageStarListsNode") :
       /\ existing_lists =
            (IF hostCalls[j].outcome = "ok" THEN HostListsView(hostAtStart) ELSE <<>>)
       /\ results = EmptyDict =>
            /\ DictKeys(list_cache) = {existing_lists[n].name : n \in DOMAIN existing_lists}
            /\ \A n \in DOMAIN existing_lists :
                 DictGet(list_cache, existing_lists[n].name) = existing_lists[n]

\* In mode existing_lists ModeDecision fetched two lists, whose names are the
\* context, and the Reconcile stage's own fetch then failed: its cache is
\* empty.
C20_Witness ==
  /\ config.mode = "existing_lists"
  /\ existing_categories = <<"Web", "Tools">>
  /\ ReconcileFetched("error")
  /\ list_cache = EmptyDict
  /\ Started("ManageStarListsNode")

\* C21 -- In mode existing_lists with a non-empty set of existing categories,
\* every category in the classification mapping is one of the existing
\* category names or "Uncategorized", and a live run issues create_star_list
\* for no name other than "Uncategorized".
C21_OnlyExistingCategories ==
  (mode = "existing_lists" /\ existing_categories # <<>>) =>
    /\ \A i \in DOMAIN classification_results :
         classification_results[i].value.category \in
           {existing_categories[n] : n \in DOMAIN existing_categories}
             \cup {"Uncategorized"}
    /\ \A i \in DOMAIN hostCalls :
         hostCalls[i].op = "create_star_list" => hostCalls[i].name = "Uncategorized"

\* The fence that opens the block the payload is taken from: the first fence
\* tagged yaml if the response has one, otherwise its first fence; 0 when the
\* response has no fence.
OpeningFence ==
  LET tokens == parsed.response
      tagged == {i \in DOMAIN tokens : tokens[i] = YamlFence}
      fences == {i \in DOMAIN tokens : tokens[i] \in Fences}
      First(S) == CHOOSE i \in S : \A j \in S : i <= j
  IN  IF tagged # {} THEN First(tagged)
      ELSE IF fences # {} THEN First(fences)
      ELSE 0

\* The documents of the payload: what stands after the opening fence and
\* before the next fence, whitespace apart.
PayloadDocs ==
  LET tokens == parsed.response
  IN  {tokens[k] : k \in {n \in DOMAIN tokens :
                            /\ n > OpeningFence
                            /\ \A j \in (OpeningFence + 1)..n : tokens[j] \notin Fences}}
        \ {" "}

\* What the payload parses to.
PayloadValue ==
  IF PayloadDocs = {} THEN YamlSafeLoad("")
  ELSE YamlSafeLoad(CHOOSE d \in PayloadDocs : TRUE)

\* The payload is a mapping that contains the key.
PayloadHas(key) ==
  PayloadValue.kind = "mapping" /\ DictHas(PayloadValue.entries, key)

\* The confidence of the payload, when it has one, is a number or the text of
\* one.
ConfidenceConverts ==
  PayloadHas("confidence") => FloatAccepts(DictGet(PayloadValue.entries, "confidence"))

\* The parser's result for a parsed response: the payload's category with the
\* defaults when the payload carries one, the sentinel otherwise.
ParsingPolicy(carries) ==
  parsed.parsed =>
    /\ Cardinality(PayloadDocs) <= 1
    /\ IF carries
       THEN /\ parsed.result.category = DictGet(PayloadValue.entries, "category").text
            /\ parsed.result.reason =
                 (IF PayloadHas("reason")
                  THEN DictGet(PayloadValue.entries, "reason").text
                  ELSE "No reason provided")
            /\ ~PayloadHas("confidence") => parsed.result.confidence = DefaultConfidence
            /\ (PayloadHas("confidence") /\ ConfidenceConverts) =>
                 parsed.result.confidence =
                   Float(DictGet(PayloadValue.entries, "confidence"))
       ELSE /\ parsed.result.category = "Uncategorized"
            /\ parsed.result.confidence = SentinelConfidence

\* C22 -- Response parsing: the payload is the block tagged yaml if the
\* response has one, otherwise the first fenced block, otherwise the whole
\* response.  If the payload parses to a mapping that contains category and
\* whose confidence, when given, converts to a float, the result carries that
\* category, the reason (default "No reason provided") and the confidence
\* (default 0.5); in every other case the result is the sentinel with category
\* "Uncategorized" and confidence 0.1.  Every response gets a result.
C22_ResponseParsing == ParsingPolicy(PayloadHas("category") /\ ConfidenceConverts)

\* C22 as stated: every payload that parses to a mapping containing category
\* gives a result with that category.
C22_CategoryAlwaysCarried == ParsingPolicy(PayloadHas("category"))

\* A response with an untagged block before a block tagged yaml: the result
\* is the tagged block's document, its whitespace stripped.
C22_Witness ==
  /\ parsed.parsed
  /\ parsed.response =
       <<BareFence, "category: Tools", YamlFence,
         " ", "category: Web\nreason: fits\nconfidence: 0.9", " ">>
  /\ parsed.result = [category |-> "Web", reason |-> "fits", confidence |-> 90]

\* The result mapping has one entry for each category that has a grouped
\* repository and no other entry.
ResultsComplete ==
  /\ DictKeys(operation_results) = GroupedCategories
  /\ Len(operation_results) = Cardinality(GroupedCategories)

\* C23 -- Result completeness: whenever the Reconcile stage is reached, the
\* run comes to its end with an operation_results mapping that has exactly
\* one entry per category with a grouped repository, whichever inference and
\* host calls failed on the way.
C23_ResultCompleteness ==
  [](Started("ManageStarListsNode") => <>(ReconcileDone /\ ResultsComplete))

\* A live run ended after a failed classification call and a failed host
\* mutation: both categories have their entry.
C23_Witness ==
  /\ ReconcileDone
  /\ ~config.dry_run
  /\ \E i \in DOMAIN llmCalls :
       llmCalls[i].purpose = "classify" /\ llmCalls[i].response.kind = "error"
  /\ \E i \in Mutations : ~hostCalls[i].ok
  /\ DictKeys(operation_results) = {"Uncategorized", "Web"}

\* In the calls, create_star_list succeeded for the category and the
\* add_repos_to_list that followed it failed.
CreatedThenAddFailed(calls, c) ==
  \E i \in CreateCalls(calls, c) :
    /\ calls[i].ok
    /\ i < Len(calls)
    /\ calls[i + 1].op = "add_repos_to_list"
    /\ ~calls[i + 1].ok

\* The number of lists of that name the host holds.
ListsNamed(host, c) == Cardinality({i \in DOMAIN host : host[i].name = c})

\* C24 -- Convergent re-run after a partial failure, for a category C of
\* which the host held no list: when in a live run create_star_list succeeds
\* for C and the add_repos_to_list after it fails, the run ends with the
\* created list on the host and {success: false} for C; a second run with the
\* same classification, whose host calls are answered normally, issues no
\* create_star_list for C, ends with action "updated" for C, and the host
\* holds one list named C.
C24_ConvergentRerun ==
  /\ \A c \in GroupedCategories :
       (/\ runNo = 1
        /\ ReconcileDone
        /\ CreatedThenAddFailed(hostCalls, c)
        /\ c \notin ListNames(hostAtStart)) =>
         /\ ListsNamed(hostLists, c) = 1
         /\ ~DictGet(operation_results, c).success
         /\ DictGet(operation_results, c).error = "add_repos_to_list failed"
  /\ \A c \in GroupedCategories :
       (/\ runNo = 2
        /\ ReconcileDone
        /\ prevRun.outcome = "done"
        /\ classification_results = prevRun.classification_results
        /\ CreatedThenAddFailed(prevRun.hostCalls, c)
        /\ c \notin ListNames(prevRun.hostAtStart)
        /\ AllOk(hostCalls)) =>
         /\ ~DictGet(prevRun.operation_results, c).success
         /\ ListsNamed(hostAtStart, c) = 1
         /\ CreateCalls(hostCalls, c) = {}
         /\ DictGet(operation_results, c).success
         /\ DictGet(operation_results, c).action = "updated"
         /\ ListsNamed(hostLists, c) = 1

\* The second run has ended with "updated" for a category whose list the
\* first run created without being able to add to it.
C24_Witness ==
  /\ runNo = 2
  /\ ReconcileDone
  /\ CreatedThenAddFailed(prevRun.hostCalls, "Web")
  /\ "Web" \notin ListNames(prevRun.hostAtStart)
  /\ AllOk(hostCalls)
  /\ DictGet(operation_results, "Web").action = "updated"
  /\ ListsNamed(hostLists, "Web") = 1

\* The repositories of the first k pages received.
RECURSIVE Collected(_)
Collected(k) == IF k = 0 THEN 0 ELSE Collected(k - 1) + paging.lengths[k]

\* The pages are requested in order from 1, the loop went on after a page
\* only when the page was full and fewer than MaxCollected repositories were
\* held, and it ended normally only on an empty page, a short page or with
\* MaxCollected repositories; at most MaxCollected \div PerPage pages are
\* requested and at most MaxCollected repositories held.
PagesInOrder ==
  /\ paging.requests = [i \in 1..Len(paging.requests) |-> i]
  /\ Len(paging.requests) <= MaxCollected \div PerPage
  /\ paging.repos = Collected(Len(paging.lengths))
  /\ paging.repos <= MaxCollected
  /\ Len(paging.lengths) =
       (IF paging.raised THEN Len(paging.requests) - 1 ELSE Len(paging.requests))
  /\ \A k \in DOMAIN paging.lengths :
       (k < Len(paging.lengths) \/ ~paging.returned \/ paging.raised) =>
         /\ paging.lengths[k] = PerPage
         /\ Collected(k) < MaxCollected
  /\ (paging.returned /\ ~paging.raised) =>
       LET last == paging.lengths[Len(paging.lengths)]
       IN  last < PerPage \/ paging.repos >= MaxCollected

\* C25 -- Starred-repository pagination terminates and is capped: with
\* per_page = 100, get_starred_repos requests pages 1, 2, ... in order, stops
\* at the first empty page, the first page shorter than per_page, or once
\* 1000 repositories are collected, issues at most 10 requests and returns at
\* most 1000 repositories, whatever pages the host returns.
C25_PaginationTerminates ==
  /\ []PagesInOrder
  /\ <>paging.returned

\* The host returned ten full pages: the loop ended after the tenth with 1000
\* repositories.
C25_Witness ==
  /\ paging.returned
  /\ ~paging.raised
  /\ paging.requests = <<1, 2, 3, 4, 5, 6, 7, 8, 9, 10>>
  /\ paging.repos = 1000

\* The full names of the starred repositories.
StarredNames == {starred_repos[i].full_name : i \in DOMAIN starred_repos}

\* The classification entries whose repository is among the starred ones.
FoundEntries ==
  SelectSeq(classification_results, LAMBDA e : e.key \in StarredNames)

\* The full names of the found entries classified into the category, in the
\* order of the mapping.
FoundIn(category) ==
  LET entries == SelectSeq(FoundEntries, LAMBDA e : e.value.category = category)
  IN  [i \in DOMAIN entries |-> entries[i].key]

\* The sizes of the first n groups, summed.
RECURSIVE GroupSizes(_)
GroupSizes(n) ==
  IF n = 0 THEN 0 ELSE GroupSizes(n - 1) + Len(organized_repos[n].value)

\* C26 -- Grouping correctness: organize_repos_by_category puts each
\* classification entry whose full_name is among the starred repositories
\* into exactly one group, the one named by its category, in the order of the
\* classification mapping; an entry whose repository is not found is in no
\* group; no group is empty, and the group sizes sum to the number of entries
\* found.
C26_GroupingCorrectness ==
  (pc = "organize_repos_by_category" /\ step = "returned") =>
    /\ \A g, h \in DOMAIN organized_repos :
         organized_repos[g].key = organized_repos[h].key => g = h
    /\ DictKeys(organized_repos) =
         {FoundEntries[i].value.category : i \in DOMAIN FoundEntries}
    /\ \A g \in DOMAIN organized_repos :
         /\ organized_repos[g].value # <<>>
         /\ FullNames(organized_repos[g].value) = FoundIn(organized_repos[g].key)
         /\ \A n \in DOMAIN organized_repos[g].value :
              organized_repos[g].value[n] \in
                {starred_repos[i] : i \in DOMAIN starred_repos}
    /\ GroupSizes(Len(organized_repos)) = Len(FoundEntries)

\* Three entries, the second of a repository that is not starred: the first
\* and the third are grouped under Web in that order.
C26_Witness ==
  /\ pc = "organize_repos_by_category"
  /\ step = "returned"
  /\ [i \in DOMAIN classification_results |-> classification_results[i].key]
       = <<"a/y", "a/z", "a/x">>
  /\ StarredNames = {"a/x", "a/y"}
  /\ DictKeys(organized_repos) = {"Web"}
  /\ FullNames(DictGet(organized_repos, "Web")) = <<"a/y", "a/x">>

\* C27 -- With use_ai_summary = false the Reconcile stage makes no inference
\* call, whatever auto_complete and enhance_existing are: the only inference
\* calls of the run are the classification calls, a fresh description is the
\* deterministic fallback, and an existing non-empty description is decided
\* unchanged even when enhance_existing is true.
C27_NoInferenceWithoutAiSummary ==
  ~config.summary_options.use_ai_summary =>
    /\ \A i \in DOMAIN llmCalls : llmCalls[i].purpose = "classify"
    /\ \A c \in DictKeys(enhanced_summaries) :
         /\ DescriptionCalls(c) = {}
         /\ FreshCategory(c) =>
              DictGet(enhanced_summaries, c) =
                GenerateBasicDescription(c, GroupOf(c),
                                         config.summary_options.include_stats)
         /\ \A l \in Named(c) :
              l.description # "" => DictGet(enhanced_summaries, c) = l.description

\* A run with use_ai_summary off and enhance_existing on has decided the
\* fallback for a category without a list and the existing description for a
\* list that has one, without an inference call for either.
C27_Witness ==
  /\ ReconcileDone
  /\ ~config.summary_options.use_ai_summary
  /\ config.summary_options.enhance_existing
  /\ \E c, d \in DictKeys(enhanced_summaries) :
       /\ Named(c) = {}
       /\ DictGet(enhanced_summaries, c) =
            GenerateBasicDescription(c, GroupOf(c),
                                     config.summary_options.include_stats)
       /\ \E l \in Named(d) :
            l.description # "" /\ DictGet(enhanced_summaries, d) = l.description

\* C28 -- In a live run create_star_list is never issued for a name that is
\* the name of a list the host holds when the Reconcile stage fetches the
\* existing lists, whatever the outcome of that fetch.
C28_NoCreateForExistingName ==
  ~config.dry_run =>
    \A i \in DOMAIN hostCalls :
      hostCalls[i].op = "create_star_list" =>
        hostCalls[i].name \notin ListNames(hostAtStart)

\* An exception has left a stage of this run: the configuration was rejected
\* by InitializeNode, or get_user_info or get_starred_repos failed.
ExceptionEscaped ==
  \/ Started("InitializeNode") /\ ~ConfigValid(config)
  \/ \E i \in DOMAIN hostCalls : hostCalls[i].op \in FatalOps /\ ~hostCalls[i].ok

\* C29 -- Run-level flag: main_star_classification returns failure exactly
\* when an exception escapes a pipeline stage; once the Reconcile stage has
\* completed it returns success even when per-category results have
\* success = false, and the reported count of successful operations is at
\* most the number of categories processed.
C29_RunLevelFlag ==
  /\ (pc = "failed") <=> ExceptionEscaped
  /\ pc \in {"done", "failed"} =>
       (MainReturns(pc, operation_results) <=> ~ExceptionEscaped)
  /\ ReconcileDone =>
       /\ MainReturns(pc, operation_results)
       /\ SuccessfulOps(operation_results) <= TotalCategories(operation_results)
       /\ TotalCategories(operation_results) = Cardinality(GroupedCategories)

\* A live run has completed the Reconcile stage with no successful category:
\* it returns success, reporting 0 successful operations of 1.
C29_Witness ==
  /\ ReconcileDone
  /\ ~config.dry_run
  /\ TotalCategories(operation_results) = 1
  /\ SuccessfulOps(operation_results) = 0
  /\ MainReturns(pc, operation_results)

\* C30 -- Ordering inside the update path: for a category present in the
\* list cache, update_star_list, when issued, precedes add_repos_to_list;
\* when update_star_list fails, no add_repos_to_list is issued for the list,
\* the category's result is {success: false, error} and the host keeps the
\* list as it was; the cache entry of that name stays the list as fetched.
C30_UpdateBeforeAdd ==
  ~config.dry_run =>
    \A c \in DictKeys(results) :
      \A l \in Named(c) :
        /\ \A u \in UpdateCalls(l.id), a \in AddCalls(l.id) : u < a
        /\ DictHas(list_cache, c)
        /\ DictGet(list_cache, c) = l
        /\ \A u \in UpdateCalls(l.id) :
             ~hostCalls[u].ok =>
               /\ AddCalls(l.id) = {}
               /\ ~DictGet(results, c).success
               /\ DictGet(results, c).error = "update_star_list failed"
               /\ \E i \in DOMAIN hostLists :
                    /\ ListView(hostLists[i]) = l
                    /\ hostLists[i] \in {hostAtStart[n] : n \in DOMAIN hostAtStart}

\* A live run has ended in which update_star_list failed for a cached list:
\* nothing was added to it and its category is reported as failed.
C30_Witness ==
  /\ ReconcileDone
  /\ ~config.dry_run
  /\ \E c \in DictKeys(operation_results) :
       \E l \in Named(c) :
         /\ \E u \in UpdateCalls(l.id) : ~hostCalls[u].ok
         /\ AddCalls(l.id) = {}
         /\ ~DictGet(operation_results, c).success
         /\ DictGet(list_cache, c) = l

====
